---- MODULE Spec2Model ----
(***************************************************************************)
(* A model of the RPC load balancer: the LoadBalancer class of             *)
(* src/src/sdk/loadBalancer.ts (endpoint selection, health tracking,      *)
(* alert dispatch) and the request pipeline of the RpcGateway class of    *)
(* src/src/gateway/index.ts.                                               *)
(*                                                                         *)
(* JavaScript runs one callback at a time: every action below is one     *)
(* synchronous stretch of code (up to an await, or from the resumption   *)
(* of an await to the end of the method).  A fetch is two actions: its   *)
(* start (selection, up to `await fetch(url, requestInit)`) and its       *)
(* completion (the code after the await).                                  *)
(***************************************************************************)
EXTENDS Integers, Sequences, FiniteSets, Bags, TLC

(***************************************************************************)
(* Bounds of the model.                                                    *)
(***************************************************************************)
\* consecutiveFailures is unbounded in the code; failures stop being
\* delivered to an endpoint whose counter has reached this cap.
MaxFailures == 4
\* Number of upstream calls that may be in flight at once.
MaxInflight == 2
\* The observed endpoint's Healthy -> Unhealthy transitions that are counted.
MaxTransitions == 2
\* Length of the window of most recent selections that is remembered.
MaxRun == 4
\* The same two caps where selection over several endpoints is explored.
MaxSelectFailures == 1
MaxSelectInflight == 1
\* The largest minHealthy a LoadBalancer is built with.
MaxMinHealthy == 2
\* The maxBodyBytes the gateway is built with.
\* Failures counted on an endpoint of a gateway route.
MaxGatewayFailures == 2

BodyLimit == 2
MaxTimers == 2

(***************************************************************************)
(* Values.                                                                 *)
(***************************************************************************)
\* An optional Set<string> (undefined when has = FALSE).
NoSet == [has |-> FALSE, vals |-> {}]

SetOf(S) == [has |-> TRUE, vals |-> S]

\* An absent lastError / reason (undefined).
Undefined == "undefined"

\* An absent lastLatencyMs (undefined).
NoLatency == -1

\* Values of Date.now() - start used by the model.
LatencyValues == {12}

\* HTTP statuses an upstream answers with.
ResponseStatuses == {200, 500}

\* The message of the error a failed upstream call rejects with.
UpstreamErrorMessage == "Network error"

\* The message of the error a throwing alert callback throws.
CallbackErrorMessage == "alert callback failed"

\* What one invocation of the onEndpointUnhealthy callback does.
CallbackBehaviours == {"resolves", "rejects", "throws"}

\* The reason argument of markUnhealthy.
Reasons == {Undefined, "Test error"}

\* The methods argument of fetch (<<>> stands for an omitted or empty one).
MethodArgs == {<<>>, <<"getSlot">>, <<"getLogs">>, <<"getSlot", "getLogs">>}

(***************************************************************************)
(* Construction.                                                           *)
(***************************************************************************)
\* const DEFAULT_OPTIONS
DEFAULT_OPTIONS == [failureThreshold |-> 3, minHealthy |-> 1]

\* normalizeEndpoint: the InternalEndpoint built from a config and its index.
NormalizeEndpoint(config, index) ==
  [ id                  |-> index,       \* stands for `endpoint-${index}`
    url                 |-> config.url,
    timeoutMs           |-> config.timeoutMs,
    consecutiveFailures |-> 0,
    healthy             |-> TRUE,
    lastLatencyMs       |-> NoLatency,
    lastError           |-> Undefined,
    methods             |-> config.methods,
    blockedMethods      |-> config.blockedMethods,
    alertSent           |-> FALSE ]

\* constructor: options are the defaults overlaid with the given ones.
NewLoadBalancer(configs, options) ==
  [ endpoints        |-> [i \in 1..Len(configs) |-> NormalizeEndpoint(configs[i], i - 1)],
    options          |-> options,
    rrIndex          |-> 0,
    lastUsedEndpoint |-> 0,              \* 0: undefined, i: a copy of endpoints[i]
    routeId          |-> Undefined ]

(***************************************************************************)
(* Selection.                                                              *)
(***************************************************************************)
\* Mutant of endpointSupportsMethod: a whitelist that has every method wins
\* over the blocklist.
EndpointSupportsMethod_whitelistFirst(endpoint, methods) ==
  IF endpoint.methods.has
  THEN \A k \in 1..Len(methods) : methods[k] \in endpoint.methods.vals
  ELSE ~(endpoint.blockedMethods.has
           /\ \E k \in 1..Len(methods) : methods[k] \in endpoint.blockedMethods.vals)

\* endpointSupportsMethod
EndpointSupportsMethod(endpoint, methods) ==
  IF endpoint.blockedMethods.has
       /\ \E k \in 1..Len(methods) : methods[k] \in endpoint.blockedMethods.vals
  THEN FALSE
  ELSE IF endpoint.methods.has
       THEN \A k \in 1..Len(methods) : methods[k] \in endpoint.methods.vals
       ELSE TRUE

\* this.endpoints, as the sequence of their positions.
AllEndpoints(lb) == [i \in 1..Len(lb.endpoints) |-> i]

\* selectEndpoint, `candidates`: the endpoints left by the method filter.
Candidates(lb, methods) ==
  LET supports(i) == EndpointSupportsMethod(lb.endpoints[i], methods)
  IN  IF Len(methods) > 0 THEN SelectSeq(AllEndpoints(lb), supports)
                          ELSE AllEndpoints(lb)

\* selectEndpoint, `healthy`: the healthy members of a sequence of endpoints.
HealthyOf(lb, seq) ==
  LET isHealthy(i) == lb.endpoints[i].healthy
  IN  SelectSeq(seq, isHealthy)

\* Mutant of the pool choice: health is ignored.
ChosenPool_ignoreHealth(lb, methods) ==
  LET candidates == Candidates(lb, methods)
  IN  IF Len(candidates) = 0 THEN AllEndpoints(lb) ELSE candidates

\* Mutant of the pool choice: any healthy candidate is enough, whatever
\* minHealthy says.
ChosenPool_anyHealthy(lb, methods) ==
  LET candidates == Candidates(lb, methods)
      healthy    == HealthyOf(lb, candidates)
      pool       == IF Len(healthy) > 0 THEN healthy ELSE candidates
  IN  IF Len(pool) = 0
      THEN LET fallback == HealthyOf(lb, AllEndpoints(lb))
           IN  IF Len(fallback) > 0 THEN fallback ELSE AllEndpoints(lb)
      ELSE pool

\* Mutant of the pool choice: an empty pool is handed on as it is.
ChosenPool_noFallback(lb, methods) ==
  LET candidates == Candidates(lb, methods)
      healthy    == HealthyOf(lb, candidates)
  IN  IF Len(healthy) >= lb.options.minHealthy THEN healthy ELSE candidates

\* selectEndpoint: the sequence handed to selectRoundRobin.
ChosenPool(lb, methods) ==
  LET candidates == Candidates(lb, methods)
      healthy    == HealthyOf(lb, candidates)
      pool       == IF Len(healthy) >= lb.options.minHealthy THEN healthy ELSE candidates
  IN  IF Len(pool) = 0
      THEN LET fallback == HealthyOf(lb, AllEndpoints(lb))
           IN  IF Len(fallback) > 0 THEN fallback ELSE AllEndpoints(lb)
      ELSE pool

\* Mutant of selectRoundRobin: the cursor is not advanced.
SelectRoundRobin_stuck(pool, rrIndex) ==
  IF Len(pool) = 0
  THEN [threw |-> TRUE, endpoint |-> 0, rrIndex |-> rrIndex]
  ELSE [threw |-> FALSE,
        endpoint |-> pool[(rrIndex % Len(pool)) + 1],
        rrIndex  |-> rrIndex]

\* Mutant of selectRoundRobin: the cursor is advanced by two.
SelectRoundRobin_skip(pool, rrIndex) ==
  IF Len(pool) = 0
  THEN [threw |-> TRUE, endpoint |-> 0, rrIndex |-> rrIndex]
  ELSE [threw |-> FALSE,
        endpoint |-> pool[(rrIndex % Len(pool)) + 1],
        rrIndex  |-> (rrIndex + 2) % Len(pool)]

\* Mutant of selectRoundRobin: the cursor is advanced without the modulo.
SelectRoundRobin_noWrap(pool, rrIndex) ==
  IF Len(pool) = 0
  THEN [threw |-> TRUE, endpoint |-> 0, rrIndex |-> rrIndex]
  ELSE [threw |-> FALSE,
        endpoint |-> pool[(rrIndex % Len(pool)) + 1],
        rrIndex  |-> rrIndex + 1]

\* selectRoundRobin: the endpoint returned (threw: "No endpoints available.")
\* and the new cursor.
SelectRoundRobin(pool, rrIndex) ==
  IF Len(pool) = 0
  THEN [threw |-> TRUE, endpoint |-> 0, rrIndex |-> rrIndex]
  ELSE [threw |-> FALSE,
        endpoint |-> pool[(rrIndex % Len(pool)) + 1],
        rrIndex  |-> (rrIndex + 1) % Len(pool)]

\* selectEndpoint
SelectEndpoint(lb, methods) == SelectRoundRobin(ChosenPool(lb, methods), lb.rrIndex)

(***************************************************************************)
(* Health tracking and alerts.  Each operator returns the endpoint after  *)
(* the call, whether the alert callback was invoked, and whether the call *)
(* ended by throwing.                                                      *)
(***************************************************************************)
Effect(endpoint, alerted, threw) ==
  [endpoint |-> endpoint, alerted |-> alerted, threw |-> threw]

\* Mutant of triggerAlert: alertSent is not set.
TriggerAlert_noFlag(endpoint, options, cb) ==
  IF endpoint.alertSent \/ ~options.onEndpointUnhealthy
  THEN Effect(endpoint, FALSE, FALSE)
  ELSE Effect(endpoint, TRUE, cb = "throws")

\* triggerAlert.  cb is what the callback does if it is invoked: a callback
\* that throws synchronously does so inside the argument of Promise.resolve,
\* before any .catch is attached.
TriggerAlert(endpoint, options, cb) ==
  IF endpoint.alertSent \/ ~options.onEndpointUnhealthy
  THEN Effect(endpoint, FALSE, FALSE)
  ELSE Effect([endpoint EXCEPT !.alertSent = TRUE], TRUE, cb = "throws")

\* Mutant of markSuccess: consecutiveFailures is left as it is.
MarkSuccess_keepFailures(endpoint, latencyMs) ==
  [endpoint EXCEPT !.healthy = TRUE,
                   !.lastError = Undefined,
                   !.alertSent = FALSE,
                   !.lastLatencyMs = IF latencyMs # NoLatency THEN latencyMs ELSE @]

\* markSuccess
MarkSuccess(endpoint, latencyMs) ==
  [endpoint EXCEPT !.consecutiveFailures = 0,
                   !.healthy = TRUE,
                   !.lastError = Undefined,
                   !.alertSent = FALSE,
                   !.lastLatencyMs = IF latencyMs # NoLatency THEN latencyMs ELSE @]

\* Mutant of markFailure: the threshold has to be exceeded, not reached.
MarkFailure_exceeds(endpoint, reason, options, cb) ==
  LET counted == [endpoint EXCEPT !.consecutiveFailures = @ + 1,
                                  !.lastError = reason]
  IN  IF counted.consecutiveFailures > options.failureThreshold
      THEN LET wasHealthy == counted.healthy
               down       == [counted EXCEPT !.healthy = FALSE]
           IN  IF wasHealthy THEN TriggerAlert(down, options, cb)
                             ELSE Effect(down, FALSE, FALSE)
      ELSE Effect(counted, FALSE, FALSE)

\* markFailure
MarkFailure(endpoint, reason, options, cb) ==
  LET counted == [endpoint EXCEPT !.consecutiveFailures = @ + 1,
                                  !.lastError = reason]
  IN  IF counted.consecutiveFailures >= options.failureThreshold
      THEN LET wasHealthy == counted.healthy
               down       == [counted EXCEPT !.healthy = FALSE]
           IN  IF wasHealthy THEN TriggerAlert(down, options, cb)
                             ELSE Effect(down, FALSE, FALSE)
      ELSE Effect(counted, FALSE, FALSE)

\* Mutant of findEndpoint: an identifier that matches nothing gives the first
\* endpoint.
FindEndpoint_orFirst(lb, urlOrId) ==
  LET matches == {i \in 1..Len(lb.endpoints) :
                    \/ urlOrId = <<"id", lb.endpoints[i].id>>
                    \/ urlOrId = <<"url", lb.endpoints[i].url>>}
  IN  IF matches = {} THEN 1
      ELSE CHOOSE i \in matches : \A j \in matches : i <= j

\* findEndpoint: the position of the first endpoint whose id or url is
\* urlOrId, 0 when there is none.  An identifier is <<"id", index>> for
\* `endpoint-${index}` or <<"url", u>> for the url u.
FindEndpoint(lb, urlOrId) ==
  LET matches == {i \in 1..Len(lb.endpoints) :
                    \/ urlOrId = <<"id", lb.endpoints[i].id>>
                    \/ urlOrId = <<"url", lb.endpoints[i].url>>}
  IN  IF matches = {} THEN 0
      ELSE CHOOSE i \in matches : \A j \in matches : i <= j

\* Mutant of markHealthy: consecutiveFailures is left as it is.
MarkHealthyEndpoint_keepFailures(endpoint) ==
  [endpoint EXCEPT !.healthy = TRUE,
                   !.lastError = Undefined]

\* Mutant of markHealthy: lastError is left as it is.
MarkHealthyEndpoint_keepError(endpoint) ==
  [endpoint EXCEPT !.healthy = TRUE,
                   !.consecutiveFailures = 0]

\* markHealthy, on the endpoint found.
MarkHealthyEndpoint(endpoint) ==
  [endpoint EXCEPT !.healthy = TRUE,
                   !.consecutiveFailures = 0,
                   !.lastError = Undefined]

\* markUnhealthy, on the endpoint found.
MarkUnhealthyEndpoint(endpoint, reason, options, cb) ==
  LET wasHealthy == endpoint.healthy
      down       == [endpoint EXCEPT !.healthy = FALSE, !.lastError = reason]
  IN  IF wasHealthy \/ ~down.alertSent
      THEN TriggerAlert(down, options, cb)
      ELSE Effect(down, FALSE, FALSE)

\* `HTTP ${response.status}`
HttpError(status) ==
  CASE status = 500 -> "HTTP 500"
    [] status = 404 -> "HTTP 404"
    [] status = 300 -> "HTTP 300"
    [] OTHER        -> "HTTP other"

\* response.ok
ResponseOk(status) == status >= 200 /\ status <= 299

\* fetch, after `await fetch(url, requestInit)`.  outcome is "response" (with
\* its status) or "error" (the upstream call rejected).  Returns the endpoint
\* after the call, whether an alert was emitted, and what fetch hands to its
\* caller: the response, or a thrown error and whose error it is.
FetchOutcome(endpoint, outcome, status, latencyMs, options, cb) ==
  IF outcome = "response"
  THEN IF ResponseOk(status)
       THEN [endpoint |-> MarkSuccess(endpoint, latencyMs), alerted |-> FALSE,
             returns |-> "response", status |-> status, error |-> Undefined]
       ELSE LET timed  == [endpoint EXCEPT !.lastLatencyMs = latencyMs]
                failed == MarkFailure(timed, HttpError(status), options, cb)
            IN  IF failed.threw
                \* the callback's exception is caught by fetch's own catch block
                THEN [endpoint |-> MarkFailure(failed.endpoint, CallbackErrorMessage,
                                               options, cb).endpoint,
                      alerted |-> failed.alerted,
                      returns |-> "throws", status |-> 0, error |-> CallbackErrorMessage]
                ELSE [endpoint |-> failed.endpoint, alerted |-> failed.alerted,
                      returns |-> "response", status |-> status, error |-> Undefined]
  ELSE LET failed == MarkFailure(endpoint, UpstreamErrorMessage, options, cb)
       IN  [endpoint |-> failed.endpoint, alerted |-> failed.alerted,
            returns |-> "throws", status |-> 0,
            error |-> IF failed.threw THEN CallbackErrorMessage ELSE UpstreamErrorMessage]

(***************************************************************************)
(* State.                                                                  *)
(***************************************************************************)
VARIABLES
  balancers,   \* the LoadBalancer objects: one under Spec, one per route of a gateway
  inflight,    \* bag of upstream calls awaited by a fetch, each with the
               \* cancellation state that buildRequest set up for it
  timers,      \* bag of pending timeout timers whose fetch has returned or thrown
  last,        \* observer: the operation that ran last and what it handed back
  watch,       \* observer: history counters of one endpoint (e = 0: none observed)
  window,      \* observer: the latest selections made over one unchanged pool
  gateway,     \* the RpcGateway's configuration and routes (route i owns balancers[i])
  handled      \* observer: the gateway request handled last and what was done with it

lbVars == <<balancers, inflight, timers, last, watch, window>>

gwVars == <<gateway, handled>>

vars == <<balancers, inflight, timers, last, watch, window, gateway, handled>>

(***************************************************************************)
(* Inputs of construction.                                                 *)
(***************************************************************************)
\* An endpoint config with a url only (timeoutMs 0: no timeoutMs).
Plain(url) ==
  [url |-> url, timeoutMs |-> 0, methods |-> NoSet, blockedMethods |-> NoSet]

\* An endpoint config with a url and a timeoutMs.
Timed(url, timeoutMs) == [Plain(url) EXCEPT !.timeoutMs = timeoutMs]

\* An endpoint config with a method whitelist and blocklist.
Filtered(url, methods, blockedMethods) ==
  [url |-> url, timeoutMs |-> 0, methods |-> methods,
   blockedMethods |-> blockedMethods]

\* Options as the constructor merges them: { ...DEFAULT_OPTIONS, ...options }.
Options(given) ==
  [failureThreshold    |-> IF given.failureThreshold = 0
                           THEN DEFAULT_OPTIONS.failureThreshold
                           ELSE given.failureThreshold,
   minHealthy          |-> IF given.minHealthy = -1
                           THEN DEFAULT_OPTIONS.minHealthy
                           ELSE given.minHealthy,
   onEndpointUnhealthy |-> given.onEndpointUnhealthy]

(***************************************************************************)
(* Observers.                                                              *)
(***************************************************************************)
NoAlert == [endpointId |-> -1, routeId |-> Undefined,
            consecutiveFailures |-> 0, lastError |-> Undefined]

\* The AlertEvent built by triggerAlert (the timestamp is left out).
AlertOf(lb, endpoint) ==
  [endpointId |-> endpoint.id, routeId |-> lb.routeId,
   consecutiveFailures |-> endpoint.consecutiveFailures,
   lastError |-> endpoint.lastError]

Idle ==
  [op |-> "none", b |-> 0, endpoint |-> 0, methods |-> <<>>, cursor |-> 0,
   threw |-> FALSE, wasHealthy |-> FALSE, upstream |-> "none",
   upstreamStatus |-> 0, counted |-> 0,
   returns |-> "nothing", status |-> 0,
   error |-> Undefined, cb |-> "none", alert |-> NoAlert,
   timer |-> "none", signal |-> "none", client |-> "none", arg |-> <<>>]

\* The observed endpoint's counters after an operation took it from `before`
\* to `after`; kind is "success", "failure", "markHealthy" or "markUnhealthy".
Observe(w, b, e, before, after, alerted, kind) ==
  IF w.b # b \/ w.e # e THEN w
  ELSE LET fell == before.healthy /\ ~after.healthy
           one  == IF alerted THEN 1 ELSE 0
       IN  [w EXCEPT
              !.transitions = IF fell THEN @ + 1 ELSE @,
              !.alerts = @ + one,
              !.intervalAlerts = IF after.healthy THEN 0
                                 ELSE IF fell THEN one ELSE @ + one,
              !.fails = IF kind = "failure" THEN @ + 1
                        ELSE IF kind \in {"success", "markHealthy"} THEN 0 ELSE @,
              !.marked = IF after.healthy THEN FALSE
                         ELSE IF kind = "markUnhealthy" THEN TRUE ELSE @]

\* The window after balancer b selected endpoint e out of `pool`: the picks made
\* since the pool handed to selectRoundRobin last changed (the latest MaxRun of
\* them); fresh says that they are all the selections made since construction.
Slide(w, b, pool, e) ==
  IF ~w.on THEN w
  ELSE IF w.b = b /\ w.pool = pool
  THEN [w EXCEPT !.picks = IF Len(@) < MaxRun THEN Append(@, e)
                           ELSE Append(Tail(@), e),
                 !.fresh = @ /\ Len(w.picks) < MaxRun]
  ELSE [w EXCEPT !.b = b, !.pool = pool, !.picks = <<e>>,
                 !.fresh = @ /\ Len(w.picks) = 0]

(***************************************************************************)
(* Operations of a LoadBalancer.                                           *)
(***************************************************************************)
\* Mutant of getUrl / getEndpoint: the selection is remembered as the last used
\* endpoint.
Select_remembered(b, op) ==
  LET lb  == balancers[b]
      sel == SelectEndpoint(lb, <<>>)
  IN  /\ balancers' = [balancers EXCEPT ![b].rrIndex = sel.rrIndex,
                                         ![b].lastUsedEndpoint = sel.endpoint]
      /\ last' = [Idle EXCEPT !.op = op, !.b = b, !.endpoint = sel.endpoint,
                              !.cursor = lb.rrIndex, !.threw = sel.threw]
      /\ window' = IF sel.threw THEN window
                   ELSE Slide(window, b, ChosenPool(lb, <<>>), sel.endpoint)
      /\ UNCHANGED <<inflight, timers, watch>>

\* getUrl / getEndpoint: one selection without a methods argument.
Select(b, op) ==
  LET lb  == balancers[b]
      sel == SelectEndpoint(lb, <<>>)
  IN  /\ balancers' = [balancers EXCEPT ![b].rrIndex = sel.rrIndex]
      /\ last' = [Idle EXCEPT !.op = op, !.b = b, !.endpoint = sel.endpoint,
                              !.cursor = lb.rrIndex, !.threw = sel.threw]
      /\ window' = IF sel.threw THEN window
                   ELSE Slide(window, b, ChosenPool(lb, <<>>), sel.endpoint)
      /\ UNCHANGED <<inflight, timers, watch>>

GetUrl(b) == Select(b, "getUrl")

GetEndpoint(b) == Select(b, "getEndpoint")

\* buildRequest: the cancellation state of a request built for `endpoint`
\* when the caller's init carries `signal` ("none", "live" or "aborted").
\* With a timeoutMs the request gets the signal of a new controller, a pending
\* timer and, when the caller gave a signal, an abort listener on it (a signal
\* that is aborted already never fires it); without one it gets the caller's
\* signal.
BuildRequest(endpoint, signal) ==
  IF endpoint.timeoutMs # 0
  THEN [controller |-> TRUE, timer |-> "pending", signal |-> signal,
        aborted |-> FALSE]
  ELSE [controller |-> FALSE, timer |-> "none", signal |-> signal,
        aborted |-> signal = "aborted"]

\* Mutant of controller.abort(): the request's signal stays as it was.
Abort_noCancel(call) == call

\* controller.abort(): the request's signal aborts, which cancels the upstream
\* call and runs the listener that clears the timer.
Abort(call) ==
  [call EXCEPT !.aborted = TRUE,
               !.timer = IF @ = "pending" THEN "cleared" ELSE @]

\* The init of a fetch: the caller's signal, the names of its headers and the
\* bytes of its body.
RequestInit(signal, headers, body) ==
  [signal |-> signal, headers |-> headers, body |-> body]

\* fetch, up to `await fetch(url, requestInit)`; via says who called.  head is
\* the status its caller has written downstream from the response (0: none;
\* the upstream call is awaited).
Fetch(b, methods, maxInflight, via, init) ==
  LET lb  == balancers[b]
      sel == SelectEndpoint(lb, methods)
      req == BuildRequest(lb.endpoints[sel.endpoint], init.signal)
  IN  /\ BagCardinality(inflight) < maxInflight
      /\ BagCardinality(timers) < MaxTimers
      /\ balancers' = IF sel.threw THEN balancers
                      ELSE [balancers EXCEPT ![b].rrIndex = sel.rrIndex,
                                             ![b].lastUsedEndpoint = sel.endpoint]
      /\ inflight' = IF sel.threw THEN inflight
                     ELSE inflight (+) SetToBag({[b |-> b, endpoint |-> sel.endpoint,
                                                    via |-> via,
                                                    client |-> IF via = "gateway"
                                                               THEN "connected"
                                                               ELSE "none",
                                                    controller |-> req.controller,
                                                    timer |-> req.timer,
                                                    signal |-> req.signal,
                                                    headers |-> init.headers,
                                                    body |-> init.body,
                                                    aborted |-> req.aborted,
                                                    head |-> 0]})
      /\ last' = [Idle EXCEPT !.op = "fetch", !.b = b, !.endpoint = sel.endpoint,
                              !.methods = methods, !.cursor = lb.rrIndex,
                              !.threw = sel.threw]
      /\ window' = IF sel.threw THEN window
                   ELSE Slide(window, b, ChosenPool(lb, methods), sel.endpoint)
      /\ UNCHANGED <<timers, watch>>

\* The timer of an awaited request fires: () => controller.abort().
TimerFires(call) ==
  /\ BagIn(call, inflight)
  /\ call.timer = "pending"
  /\ inflight' = (inflight (-) SetToBag({call}))
                   (+) SetToBag({Abort([call EXCEPT !.timer = "fired"])})
  /\ last' = [Idle EXCEPT !.op = "timer", !.b = call.b, !.endpoint = call.endpoint]
  /\ UNCHANGED <<balancers, timers, watch, window>>

\* The timer of a request whose fetch is over fires: the abort reaches a
\* controller that no fetch awaits.
LeakedTimerFires(t) ==
  /\ BagIn(t, timers)
  /\ timers' = timers (-) SetToBag({t})
  /\ last' = [Idle EXCEPT !.op = "leakedTimer", !.b = t.b, !.endpoint = t.endpoint]
  /\ UNCHANGED <<balancers, inflight, watch, window>>

\* The caller aborts the signal it gave to fetch: with a controller the
\* listener aborts it, without one the signal is the request's own.
CallerAborts(call) ==
  /\ BagIn(call, inflight)
  /\ call.signal = "live"
  /\ inflight' = (inflight (-) SetToBag({call}))
                   (+) SetToBag({Abort([call EXCEPT !.signal = "aborted"])})
  /\ last' = [Idle EXCEPT !.op = "callerAbort", !.b = call.b,
                          !.endpoint = call.endpoint]
  /\ UNCHANGED <<balancers, timers, watch, window>>

\* fetch, from the completion of the upstream call to its return or throw.
\* reading: the caller goes on to read the body of a response that fetch
\* returns, so that the request's timer, if it is pending, stays with the call.
FetchSettles(call, outcome, status, latencyMs, cb, maxFailures, reading) ==
  LET b      == call.b
      e      == call.endpoint
      lb     == balancers[b]
      before == lb.endpoints[e]
      res    == FetchOutcome(before, outcome, status, latencyMs, lb.options, cb)
      w      == Observe(watch, b, e, before, res.endpoint, res.alerted,
                        IF outcome = "response" /\ ResponseOk(status)
                        THEN "success" ELSE "failure")
      read   == reading /\ res.returns = "response"
  IN  /\ BagIn(call, inflight)
      /\ call.head = 0
      /\ call.aborted => outcome = "error"
      /\ res.endpoint.consecutiveFailures <= maxFailures
      /\ w.transitions <= MaxTransitions
      /\ balancers' = [balancers EXCEPT ![b].endpoints[e] = res.endpoint]
      /\ inflight' = IF read
                     THEN (inflight (-) SetToBag({call}))
                            (+) SetToBag({[call EXCEPT !.head = res.status]})
                     ELSE inflight (-) SetToBag({call})
      /\ timers' = IF call.timer = "pending" /\ ~read
                   THEN timers (+) SetToBag({[b |-> b, endpoint |-> e]})
                   ELSE timers
      /\ last' = [Idle EXCEPT !.op = "fetchDone", !.b = b, !.endpoint = e,
                              !.timer = call.timer, !.signal = call.signal,
                              !.client = call.client,
                              !.wasHealthy = before.healthy,
                              !.upstream = IF outcome = "error" THEN "error"
                                           ELSE IF ResponseOk(status) THEN "ok"
                                           ELSE "not ok",
                              !.upstreamStatus = IF outcome = "error" THEN 0 ELSE status,
                              !.counted = IF outcome = "response" /\ ResponseOk(status)
                                          THEN 0
                                          ELSE res.endpoint.consecutiveFailures
                                                 - before.consecutiveFailures,
                              !.returns = res.returns, !.status = res.status,
                              !.error = res.error,
                              !.cb = IF res.alerted THEN cb ELSE "none",
                              !.alert = IF res.alerted
                                        THEN AlertOf(lb, res.endpoint) ELSE NoAlert]
      /\ watch' = w
      /\ UNCHANGED window

\* fetch, from the completion of the upstream call to its return or throw,
\* when nothing reads the body afterwards that could fail.
FetchComplete(call, outcome, status, latencyMs, cb, maxFailures) ==
  FetchSettles(call, outcome, status, latencyMs, cb, maxFailures, FALSE)

\* markHealthy
MarkHealthy(b, urlOrId) ==
  LET lb == balancers[b]
      e  == FindEndpoint(lb, urlOrId)
  IN  /\ last' = [Idle EXCEPT !.op = "markHealthy", !.b = b, !.endpoint = e,
                              !.arg = urlOrId]
      /\ IF e = 0
         THEN UNCHANGED <<balancers, watch>>
         ELSE LET after == MarkHealthyEndpoint(lb.endpoints[e])
              IN  /\ balancers' = [balancers EXCEPT ![b].endpoints[e] = after]
                  /\ watch' = Observe(watch, b, e, lb.endpoints[e], after, FALSE,
                                      "markHealthy")
      /\ UNCHANGED <<inflight, timers, window>>

\* markUnhealthy
MarkUnhealthy(b, urlOrId, reason, cb) ==
  LET lb == balancers[b]
      e  == FindEndpoint(lb, urlOrId)
  IN  IF e = 0
      THEN /\ last' = [Idle EXCEPT !.op = "markUnhealthy", !.b = b,
                                   !.arg = urlOrId]
           /\ UNCHANGED <<balancers, inflight, timers, watch, window>>
      ELSE LET before == lb.endpoints[e]
               res    == MarkUnhealthyEndpoint(before, reason, lb.options, cb)
               w      == Observe(watch, b, e, before, res.endpoint, res.alerted,
                                 "markUnhealthy")
           IN  /\ w.transitions <= MaxTransitions
               /\ balancers' = [balancers EXCEPT ![b].endpoints[e] = res.endpoint]
               /\ last' = [Idle EXCEPT !.op = "markUnhealthy", !.b = b, !.endpoint = e,
                                       !.arg = urlOrId,
                                       !.wasHealthy = before.healthy,
                                       !.threw = res.threw,
                                       !.returns = IF res.threw THEN "throws"
                                                   ELSE "nothing",
                                       !.error = IF res.threw THEN CallbackErrorMessage
                                                 ELSE Undefined,
                                       !.cb = IF res.alerted THEN cb ELSE "none",
                                       !.alert = IF res.alerted
                                                 THEN AlertOf(lb, res.endpoint)
                                                 ELSE NoAlert]
               /\ watch' = w
               /\ UNCHANGED <<inflight, timers, window>>

(***************************************************************************)
(* The gateway: JSON payloads.                                             *)
(*                                                                         *)
(* A JSON value is a record: t is its type ("null", "number", "object",   *)
(* "array"); for an object, mkind says whether it has a `method` member   *)
(* that is a string ("string"), one that is not ("other") or none         *)
(* ("missing"), method is the string, and id is its `id` member (NoId:    *)
(* none); for an array, items are its entries.                             *)
(***************************************************************************)
NoId == -1

JsonNull == [t |-> "null", mkind |-> "missing", method |-> "", id |-> NoId, items |-> <<>>]

JsonNumber == [JsonNull EXCEPT !.t = "number"]

JsonObject(mkind, method, id) ==
  [JsonNull EXCEPT !.t = "object", !.mkind = mkind, !.method = method, !.id = id]

JsonArray(items) == [JsonNull EXCEPT !.t = "array", !.items = items]

\* extractMethods
ExtractMethods(payload) ==
  IF payload.t = "array"
  THEN LET hasStringMethod(entry) == entry.t = "object" /\ entry.mkind = "string"
           kept == SelectSeq(payload.items, hasStringMethod)
       IN  [k \in 1..Len(kept) |-> kept[k].method]
  ELSE IF payload.t = "object"
       THEN IF payload.mkind = "string" THEN <<payload.method>> ELSE <<>>
       ELSE <<>>

(***************************************************************************)
(* The gateway: the request pipeline.                                      *)
(***************************************************************************)
\* An optional string[] (undefined when has = FALSE).
NoList == [has |-> FALSE, vals |-> <<>>]

ListOf(seq) == [has |-> TRUE, vals |-> seq]

Range(seq) == {seq[k] : k \in 1..Len(seq)}

\* methods.find((m) => !allowed.has(m)): the position of the first method that
\* is not allowed, 0 when every method is allowed.
FirstNotAllowed(methods, allowed) ==
  LET bad == {k \in 1..Len(methods) : methods[k] \notin allowed}
  IN  IF bad = {} THEN 0 ELSE CHOOSE k \in bad : \A j \in bad : k <= j

\* handleRequest, the global method whitelist: the method the request is
\* refused for ([refused |-> FALSE] when it passes).  `allowedMethods?.length`
\* and `if (blocked)` are truthiness tests: an empty list and an empty method
\* name are falsy.
WhitelistCheck(allowedMethods, methods) ==
  IF allowedMethods.has /\ Len(allowedMethods.vals) # 0
  THEN LET k == FirstNotAllowed(methods, Range(allowedMethods.vals))
       IN  IF k # 0 /\ methods[k] # ""
           THEN [refused |-> TRUE, method |-> methods[k]]
           ELSE [refused |-> FALSE, method |-> ""]
  ELSE [refused |-> FALSE, method |-> ""]

\* methods.every((m) => route.methods?.has(m))
RouteHandles(route, methods) ==
  \A k \in 1..Len(methods) : methods[k] \in route.methods.vals

\* Mutant of findRoute: routes with a method filter are tried before the
\* routes without one.
FindRoute_explicitFirst(gw, methods) ==
  LET explicit == {r \in 1..Len(gw.routes) :
                     gw.routes[r].methods.has /\ RouteHandles(gw.routes[r], methods)}
      open     == {r \in 1..Len(gw.routes) : ~gw.routes[r].methods.has}
      named    == {r \in 1..Len(gw.routes) : gw.routes[r].id = gw.defaultRouteId}
  IN  IF explicit # {} THEN CHOOSE r \in explicit : \A q \in explicit : r <= q
      ELSE IF open # {} THEN CHOOSE r \in open : \A q \in open : r <= q
      ELSE IF gw.defaultRouteId # Undefined /\ gw.defaultRouteId # "" /\ named # {}
           THEN CHOOSE r \in named : \A q \in named : r <= q
           ELSE 0

\* findRoute: the position of the route, 0 when there is none.
FindRoute(gw, methods) ==
  LET matching == {r \in 1..Len(gw.routes) :
                     ~gw.routes[r].methods.has \/ RouteHandles(gw.routes[r], methods)}
      named    == {r \in 1..Len(gw.routes) : gw.routes[r].id = gw.defaultRouteId}
  IN  IF matching # {} THEN CHOOSE r \in matching : \A q \in matching : r <= q
      ELSE IF gw.defaultRouteId # Undefined /\ gw.defaultRouteId # "" /\ named # {}
           THEN CHOOSE r \in named : \A q \in named : r <= q
           ELSE 0

(***************************************************************************)
(* The gateway: bodies and headers.                                        *)
(*                                                                         *)
(* A body arrives as a sequence of chunks, each a sequence of bytes.  Text *)
(* is a sequence of code points.  The bytes that occur are those of "a"    *)
(* (97), the two bytes of U+00E9 (195 169) and 255, which no UTF-8 text    *)
(* contains.                                                               *)
(***************************************************************************)
RECURSIVE Concat(_)
\* Buffer.concat(chunks)
Concat(chunks) ==
  IF chunks = <<>> THEN <<>>
  ELSE IF Len(chunks) = 1 THEN chunks[1]
  ELSE Head(chunks) \o Concat(Tail(chunks))

RECURSIVE Utf8Decode(_)
\* buffer.toString("utf8") for one- and two-byte sequences: a byte that does
\* not start or continue a well-formed sequence becomes U+FFFD (bytes below
\* 128 are the code points themselves).
Utf8Decode(bytes) ==
  IF \A i \in 1..Len(bytes) : bytes[i] < 128 THEN bytes
  ELSE IF bytes[1] < 128 THEN <<bytes[1]>> \o Utf8Decode(Tail(bytes))
  ELSE IF /\ bytes[1] \in 194..223
          /\ Len(bytes) >= 2
          /\ bytes[2] \in 128..191
       THEN <<(bytes[1] - 192) * 64 + (bytes[2] - 128)>>
              \o Utf8Decode(Tail(Tail(bytes)))
  ELSE <<65533>> \o Utf8Decode(Tail(bytes))

RECURSIVE Utf8Encode(_)
\* The bytes fetch sends for a body given as a string.
Utf8Encode(text) ==
  IF \A i \in 1..Len(text) : text[i] < 128 THEN text
  ELSE LET c == text[1]
       IN  (IF c < 128 THEN <<c>>
            ELSE IF c < 2048 THEN <<192 + (c \div 64), 128 + (c % 64)>>
            ELSE <<224 + (c \div 4096), 128 + ((c \div 64) % 64), 128 + (c % 64)>>)
             \o Utf8Encode(Tail(text))

RECURSIVE ReadChunks_atLimit(_, _, _)
\* Mutant of readBody: a body of exactly maxBodyBytes bytes is rejected.
ReadChunks_atLimit(chunks, size, maxBodyBytes) ==
  IF chunks = <<>> THEN FALSE
  ELSE LET now == size + Len(Head(chunks))
       IN  IF now >= maxBodyBytes THEN TRUE
           ELSE ReadChunks_atLimit(Tail(chunks), now, maxBodyBytes)

RECURSIVE ReadChunks(_, _, _)
\* readBody, the "data" handler over the chunks that are still to come, with
\* `size` bytes received so far: TRUE when the promise is rejected.
ReadChunks(chunks, size, maxBodyBytes) ==
  IF chunks = <<>> THEN FALSE
  ELSE LET now == size + Len(Head(chunks))
       IN  IF now > maxBodyBytes THEN TRUE
           ELSE ReadChunks(Tail(chunks), now, maxBodyBytes)

\* readBody: rejected, or resolved with the text of the concatenated chunks.
ReadBody(chunks, maxBodyBytes) ==
  IF ReadChunks(chunks, 0, maxBodyBytes)
  THEN [rejected |-> TRUE, rawBody |-> <<>>]
  ELSE [rejected |-> FALSE, rawBody |-> Utf8Decode(Concat(chunks))]

\* key.toLowerCase() on the header names that occur.
ToLowerCase(name) ==
  CASE name = "Host" -> "host"
    [] name = "Connection" -> "connection"
    [] name = "Content-Encoding" -> "content-encoding"
    [] OTHER -> name

\* filterRequestHeaders (headers are sets of names; every value is non-empty).
FilterRequestHeaders(headers) ==
  {h \in headers : ToLowerCase(h) \notin {"host", "content-length", "connection"}}

\* filterResponseHeaders
FilterResponseHeaders(headers) ==
  {h \in headers :
     ToLowerCase(h) \notin {"content-length", "content-encoding",
                            "transfer-encoding", "connection"}}

\* A request: its HTTP method and path, its header names, the chunks of its
\* body, whether the text of the body is valid JSON and the value it parses
\* to.
Request(httpMethod, chunks, valid, payload) ==
  [httpMethod |-> httpMethod, path |-> "/", headers |-> {}, chunks |-> chunks,
   valid |-> valid, payload |-> payload]

\* A body of n bytes in one chunk (none for n = 0).
Body(n) == IF n = 0 THEN <<>> ELSE <<[i \in 1..n |-> 97]>>

\* No request (the answer written after a forward no longer has one).
NoRequest == Request("none", <<>>, FALSE, JsonNull)

\* The body of a JSON-RPC error answer: whether it is an array, and the id of
\* each error object (NoId: null).  Other answers have no such body.
NoBody == [batch |-> FALSE, ids |-> <<>>]

\* Mutant of sendJsonRpcError: one error object whatever the payload is.
JsonRpcBody_single(payload) ==
  [batch |-> FALSE,
   ids |-> <<IF payload.t = "object" THEN payload.id ELSE NoId>>]

\* sendJsonRpcError, buildError: an error object per entry of an array, one
\* error object otherwise, each with the id of its entry (`id ?? null`).
JsonRpcBody(payload) ==
  LET idOf(p) == IF p.t = "object" THEN p.id ELSE NoId
  IN  IF payload.t = "array"
      THEN [batch |-> TRUE,
            ids |-> [i \in 1..Len(payload.items) |-> idOf(payload.items[i])]]
      ELSE [batch |-> FALSE, ids |-> <<idOf(payload)>>]

\* What handleRequest writes, or the route it forwards to.  status is the
\* status of its first writeHead call and second that of a later one (0: none);
\* logged is the endpoint that getLastUsedEndpoint returned for the log line.
NotHandled ==
  [decision |-> "none", status |-> 0, code |-> 0, message |-> "", arg |-> "",
   methods |-> <<>>, route |-> 0, endpoint |-> 0,
   body |-> NoBody, req |-> NoRequest,
   upHeaders |-> {}, upBody |-> <<>>, resHeaders |-> {}, headers |-> {},
   logged |-> 0, second |-> 0]

\* An answer or a forward, with the request it is for.
For(out, req) == [out EXCEPT !.req = req]

HttpError405 == [NotHandled EXCEPT !.decision = "replied", !.status = 405,
                                   !.message = "Only POST is supported."]

HttpError413 == [NotHandled EXCEPT !.decision = "replied", !.status = 413,
                                   !.message = "Request body too large."]

BadGateway == [NotHandled EXCEPT !.decision = "replied", !.status = 502,
                                 !.message = "Bad Gateway: Upstream request failed."]

\* sendJsonRpcError: always HTTP 200.
JsonRpcError(payload, code, message, arg) ==
  [NotHandled EXCEPT !.decision = "replied", !.status = 200, !.code = code,
                     !.message = message, !.arg = arg,
                     !.body = JsonRpcBody(payload)]

\* Mutant of handleRequest: the body is read before the HTTP method is looked
\* at.
Pipeline_bodyFirst(gw, req) ==
  IF gw.cors /\ req.httpMethod = "OPTIONS"
  THEN [NotHandled EXCEPT !.decision = "replied", !.status = 204]
  ELSE LET read == ReadBody(req.chunks, gw.maxBodyBytes) IN
  IF read.rejected THEN HttpError413
  ELSE IF req.httpMethod # "POST" THEN HttpError405
  ELSE IF read.rawBody # <<>> /\ ~req.valid
       THEN JsonRpcError(JsonNull, -32700, "Parse error: Invalid JSON.", "")
  ELSE LET payload == IF read.rawBody = <<>> THEN JsonNull ELSE req.payload
           methods == ExtractMethods(payload)
           check   == WhitelistCheck(gw.allowedMethods, methods)
           route   == FindRoute(gw, methods)
       IN  IF Len(methods) = 0
           THEN [JsonRpcError(payload, -32600, "Invalid Request.", "")
                   EXCEPT !.methods = methods]
           ELSE IF check.refused
           THEN [JsonRpcError(payload, -32601, "Method not allowed: ", check.method)
                   EXCEPT !.methods = methods]
           ELSE IF route = 0
           THEN [JsonRpcError(payload, -32601, "Method not found.", "")
                   EXCEPT !.methods = methods]
           ELSE [NotHandled EXCEPT !.decision = "forward", !.methods = methods,
                                   !.route = route]

\* handleRequest up to the call of route.balancer.fetch.  A request is its
\* HTTP method, the size of its body in bytes, whether the body is valid JSON
\* and the value it parses to.
Pipeline(gw, req) ==
  IF gw.cors /\ req.httpMethod = "OPTIONS"
  THEN [NotHandled EXCEPT !.decision = "replied", !.status = 204]
  ELSE IF req.httpMethod # "POST" THEN HttpError405
  ELSE LET read == ReadBody(req.chunks, gw.maxBodyBytes) IN
  IF read.rejected THEN HttpError413
  ELSE IF read.rawBody # <<>> /\ ~req.valid
       THEN JsonRpcError(JsonNull, -32700, "Parse error: Invalid JSON.", "")
  ELSE LET payload == IF read.rawBody = <<>> THEN JsonNull ELSE req.payload
           methods == ExtractMethods(payload)
           check   == WhitelistCheck(gw.allowedMethods, methods)
           route   == FindRoute(gw, methods)
       IN  IF Len(methods) = 0
           THEN [JsonRpcError(payload, -32600, "Invalid Request.", "")
                   EXCEPT !.methods = methods]
           ELSE IF check.refused
           THEN [JsonRpcError(payload, -32601, "Method not allowed: ", check.method)
                   EXCEPT !.methods = methods]
           ELSE IF route = 0
           THEN [JsonRpcError(payload, -32601, "Method not found.", "")
                   EXCEPT !.methods = methods]
           ELSE [NotHandled EXCEPT !.decision = "forward", !.methods = methods,
                                   !.route = route]

\* Mutant of handleRequest: a request that is answered before forwarding has
\* selected an endpoint of the first route all the same.
GwRequest_selectsFirst(req, maxInflight) ==
  LET out    == Pipeline(gateway, req)
      sent   == FilterRequestHeaders(req.headers)
      body   == Utf8Encode(ReadBody(req.chunks, gateway.maxBodyBytes).rawBody)
      sel    == SelectEndpoint(balancers[1], <<>>)
  IN  /\ \E s \in 1..Len(gateway.servers) : gateway.servers[s] = "listening"
      /\ \/ /\ out.decision = "forward"
            /\ Fetch(out.route, <<>>, maxInflight, "gateway",
                     RequestInit("none", sent, body))
            /\ handled' = For([out EXCEPT !.decision = "forwarded",
                                          !.endpoint = last'.endpoint,
                                          !.upHeaders = sent,
                                          !.upBody = body],
                              req)
         \/ /\ out.decision # "forward"
            /\ handled' = For(out, req)
            /\ balancers' = [balancers EXCEPT ![1].rrIndex = sel.rrIndex,
                                               ![1].lastUsedEndpoint = sel.endpoint]
            /\ UNCHANGED <<inflight, timers, last, watch, window>>
      /\ UNCHANGED gateway

\* handleRequest, from the arrival of a request to its reply or to the await
\* of the upstream call (the gateway passes no methods argument to fetch).
GwRequest(req, maxInflight) ==
  LET out    == Pipeline(gateway, req)
      sent   == FilterRequestHeaders(req.headers)
      \* body: rawBody, a string, which fetch sends as UTF-8
      body   == Utf8Encode(ReadBody(req.chunks, gateway.maxBodyBytes).rawBody)
  IN  /\ \E s \in 1..Len(gateway.servers) : gateway.servers[s] = "listening"
      /\ \/ /\ out.decision = "forward"
            /\ Fetch(out.route, <<>>, maxInflight, "gateway",
                     RequestInit("none", sent, body))
            /\ handled' = For([out EXCEPT !.decision = "forwarded",
                                          !.endpoint = last'.endpoint,
                                          !.upHeaders = sent,
                                          !.upBody = body],
                              req)
         \/ /\ out.decision # "forward"
            /\ handled' = For(out, req)
            /\ UNCHANGED lbVars
      /\ UNCHANGED gateway

\* The downstream client of a forwarded request goes away while the upstream
\* call is awaited: handleRequest gave fetch no signal and listens to no close
\* or abort event, so the call is left as it is.
ClientAborts(call) ==
  /\ BagIn(call, inflight)
  /\ call.via = "gateway"
  /\ call.client = "connected"
  /\ inflight' = (inflight (-) SetToBag({call}))
                   (+) SetToBag({[call EXCEPT !.client = "gone"]})
  /\ last' = [Idle EXCEPT !.op = "clientAbort", !.b = call.b,
                          !.endpoint = call.endpoint]
  /\ UNCHANGED <<balancers, timers, watch, window, gateway, handled>>

\* handleRequest, from the end of the upstream call to its first writeHead:
\* the log line with getLastUsedEndpoint, then the upstream status and the
\* filtered headers, or 502 when fetch threw.  decision says whether the body
\* is written too ("replied") or is still being read ("reading").
GwSettles(call, r, cb, maxFailures, reading) ==
  LET lb  == balancers[call.b]
      res == FetchOutcome(lb.endpoints[call.endpoint], r.outcome, r.status,
                          r.latencyMs, lb.options, cb)
  IN  /\ call.via = "gateway"
      /\ FetchSettles(call, r.outcome, r.status, r.latencyMs, cb, maxFailures,
                      reading)
      /\ handled' = IF res.returns = "response"
                    THEN [NotHandled EXCEPT !.decision = IF reading THEN "reading"
                                                         ELSE "replied",
                                            !.status = res.status,
                                            !.message = "upstream",
                                            !.route = call.b,
                                            !.endpoint = call.endpoint,
                                            !.upHeaders = call.headers,
                                            !.upBody = call.body,
                                            !.resHeaders = r.headers,
                                            !.headers = FilterResponseHeaders(r.headers),
                                            !.logged = lb.lastUsedEndpoint]
                    ELSE [BadGateway EXCEPT !.route = call.b,
                                            !.endpoint = call.endpoint,
                                            !.upHeaders = call.headers,
                                            !.upBody = call.body,
                                            !.logged = lb.lastUsedEndpoint]
      /\ UNCHANGED gateway

\* handleRequest, from the end of the upstream call to the reply, when the
\* body of the response is read at once.
GwComplete(call, r, cb, maxFailures) == GwSettles(call, r, cb, maxFailures, FALSE)

\* handleRequest, from the end of the upstream call to
\* `await upstreamResponse.arrayBuffer()`.
GwHead(call, r, cb, maxFailures) == GwSettles(call, r, cb, maxFailures, TRUE)

\* The timer of a request whose body is being read fires: the abort errors the
\* body stream (and clears nothing else: the listener only clears the timer).
GwBodyTimer(call) ==
  /\ BagIn(call, inflight)
  /\ call.head # 0
  /\ call.timer = "pending"
  /\ inflight' = (inflight (-) SetToBag({call}))
                   (+) SetToBag({Abort([call EXCEPT !.timer = "fired"])})
  /\ last' = [Idle EXCEPT !.op = "timer", !.b = call.b, !.endpoint = call.endpoint]
  /\ UNCHANGED <<balancers, timers, watch, window, gateway, handled>>

\* handleRequest, from the end of the body read to its end: res.end(body) when
\* the read succeeded; when it failed the catch block, which logs with
\* getLastUsedEndpoint and calls res.writeHead(502) on the response whose head
\* is written.  A timer that is still pending stays behind.
GwBody(call, ok) ==
  /\ BagIn(call, inflight)
  /\ call.head # 0
  /\ call.aborted => ~ok
  /\ inflight' = inflight (-) SetToBag({call})
  /\ timers' = IF call.timer = "pending"
               THEN timers (+) SetToBag({[b |-> call.b, endpoint |-> call.endpoint]})
               ELSE timers
  /\ last' = [Idle EXCEPT !.op = "body", !.b = call.b, !.endpoint = call.endpoint,
                          !.timer = call.timer, !.upstreamStatus = call.head,
                          !.returns = IF ok THEN "nothing" ELSE "throws"]
  /\ handled' = [NotHandled EXCEPT !.decision = IF ok THEN "replied" ELSE "failed",
                                   !.status = call.head,
                                   !.message = "upstream",
                                   !.route = call.b,
                                   !.endpoint = call.endpoint,
                                   !.upHeaders = call.headers,
                                   !.upBody = call.body,
                                   !.logged = IF ok THEN 0
                                              ELSE balancers[call.b].lastUsedEndpoint,
                                   !.second = IF ok THEN 0 ELSE 502]
  /\ UNCHANGED <<balancers, watch, window, gateway>>

(***************************************************************************)
(* The LoadBalancer used on its own.                                       *)
(***************************************************************************)
NoWatch == [b |-> 0, e |-> 0, transitions |-> 0, alerts |-> 0,
            intervalAlerts |-> 0, fails |-> 0, marked |-> FALSE]

NoGateway ==
  [cors |-> FALSE, maxBodyBytes |-> 0, allowedMethods |-> NoList,
   defaultRouteId |-> Undefined, onEndpointUnhealthy |-> FALSE,
   healthCheckPath |-> Undefined, routes |-> <<>>, server |-> 0, servers |-> <<>>]

NoWindow == [on |-> FALSE, b |-> 0, pool |-> <<>>, picks |-> <<>>, fresh |-> TRUE]

\* The state after construction of one LoadBalancer; observe is the endpoint
\* whose history is counted (0: none), slide whether selections are remembered.
Constructed(configs, options, observe, slide) ==
  /\ balancers = <<NewLoadBalancer(configs, options)>>
  /\ inflight = EmptyBag
  /\ timers = EmptyBag
  /\ last = Idle
  /\ watch = [NoWatch EXCEPT !.b = IF observe = 0 THEN 0 ELSE 1, !.e = observe]
  /\ window = [NoWindow EXCEPT !.on = slide]
  /\ gateway = NoGateway
  /\ handled = NotHandled

\* What the upstream call of a fetch ends with: a response with its status,
\* after latencyMs, or an error.
Response(status, latencyMs) ==
  [outcome |-> "response", status |-> status, latencyMs |-> latencyMs,
   headers |-> {}]

UpstreamError ==
  [outcome |-> "error", status |-> 0, latencyMs |-> NoLatency, headers |-> {}]

\* One step of balancer b with the inputs drawn from the sets of `in`.
LbStep(b, in) ==
  \/ GetUrl(b)
  \/ GetEndpoint(b)
  \/ \E methods \in in.methods, signal \in in.signals :
       Fetch(b, methods, in.maxInflight, "direct", RequestInit(signal, {}, <<>>))
  \/ \E call \in BagToSet(inflight), r \in in.results, cb \in in.callbacks :
       /\ call.b = b
       /\ call.via = "direct"
       /\ FetchComplete(call, r.outcome, r.status, r.latencyMs, cb, in.maxFailures)
  \/ \E id \in in.ids : MarkHealthy(b, id)
  \/ \E id \in in.ids, reason \in in.reasons, cb \in in.callbacks :
       MarkUnhealthy(b, id, reason, cb)

\* Health tracking of one endpoint: every outcome of a fetch, every behaviour
\* of the alert callback, with and without a callback, thresholds 1 to 3.
HealthInputs ==
  [methods |-> {<<>>, <<"getSlot">>}, signals |-> {"none"},
   results |-> {Response(s, l) : s \in ResponseStatuses, l \in LatencyValues}
                 \cup {UpstreamError},
   reasons |-> Reasons, callbacks |-> CallbackBehaviours,
   ids |-> {<<"id", 0>>, <<"id", 1>>, <<"url", "A">>, <<"url", "Z">>},
   maxInflight |-> MaxInflight, maxFailures |-> MaxFailures]

Init ==
  \E t \in {0, 1, 2}, c \in BOOLEAN :
    Constructed(<<Plain("A")>>,
                Options([failureThreshold |-> t, minHealthy |-> -1,
                         onEndpointUnhealthy |-> c]),
                1, FALSE)

Next == (\E b \in 1..Len(balancers) : LbStep(b, HealthInputs)) /\ UNCHANGED gwVars

Spec == Init /\ [][Next]_vars

(***************************************************************************)
(* Selection over pools of one to three endpoints, with method filters.   *)
(***************************************************************************)
SelectLists ==
  { <<Plain("A")>>,
    <<Plain("A"), Plain("B")>>,
    <<Plain("A"), Plain("B"), Plain("C")>>,
    <<Filtered("A", SetOf({"getSlot"}), NoSet),
      Filtered("B", NoSet, SetOf({"getSlot"}))>>,
    <<Filtered("A", SetOf({"getSlot", "getLogs"}), SetOf({"getLogs"})),
      Plain("B")>> }

\* Forwards fail (with threshold 1 one failure makes an endpoint unhealthy);
\* the first two endpoints are also marked by hand.
SelectInputs ==
  [methods |-> MethodArgs, signals |-> {"none"},
   results |-> {UpstreamError},
   reasons |-> {Undefined}, callbacks |-> {"resolves"},
   ids |-> {<<"id", 0>>, <<"id", 1>>},
   maxInflight |-> MaxSelectInflight, maxFailures |-> MaxSelectFailures]

\* minHealthy from 0 to MaxMinHealthy; the pool of three has the default one,
\* the pools with method filters the default one or MaxMinHealthy.
SelectInit ==
  \E configs \in SelectLists, m \in 0..MaxMinHealthy :
    /\ Len(configs) = 3 => m = DEFAULT_OPTIONS.minHealthy
    /\ (\E i \in 1..Len(configs) : configs[i].methods.has)
         => m \in {DEFAULT_OPTIONS.minHealthy, MaxMinHealthy}
    /\ Constructed(configs,
                   Options([failureThreshold |-> 1, minHealthy |-> m,
                            onEndpointUnhealthy |-> FALSE]),
                   0, TRUE)

\* A pool without method lists is called with no method and with one method
\* (its endpoints support every method), the other pools with every argument.
SelectNext ==
  /\ \E b \in 1..Len(balancers) :
       LET filtered == \E i \in 1..Len(balancers[b].endpoints) :
                         \/ balancers[b].endpoints[i].methods.has
                         \/ balancers[b].endpoints[i].blockedMethods.has
       IN  LbStep(b, [SelectInputs EXCEPT
                        !.methods = IF filtered THEN @ ELSE {<<>>, <<"getSlot">>}])
  /\ UNCHANGED gwVars

SelectSpec == SelectInit /\ [][SelectNext]_vars

(***************************************************************************)
(* The cursor and the last used endpoint: every operation of a balancer,  *)
(* getStatus included, over pools whose membership changes with health    *)
(* and with the methods argument.                                          *)
(***************************************************************************)
\* getStatus: a new array of copies of the health fields; nothing is written.
GetStatus(b) ==
  /\ last' = [Idle EXCEPT !.op = "getStatus", !.b = b,
                          !.arg = [e \in 1..Len(balancers[b].endpoints) |->
                                    LET endpoint == balancers[b].endpoints[e]
                                    IN  [id |-> endpoint.id, url |-> endpoint.url,
                                         healthy |-> endpoint.healthy,
                                         consecutiveFailures |->
                                           endpoint.consecutiveFailures,
                                         lastLatencyMs |-> endpoint.lastLatencyMs,
                                         lastError |-> endpoint.lastError]]]
  /\ UNCHANGED <<balancers, inflight, timers, watch, window>>

CursorLists ==
  { <<Plain("A"), Plain("B"), Plain("C")>>,
    <<Filtered("A", SetOf({"getSlot"}), NoSet),
      Filtered("B", NoSet, SetOf({"getSlot"}))>> }

\* Forwards succeed or fail (threshold 1); the first endpoint is also marked
\* by hand.
CursorInputs ==
  [methods |-> {<<>>, <<"getSlot">>}, signals |-> {"none"},
   results |-> {Response(200, 12), UpstreamError},
   reasons |-> {Undefined}, callbacks |-> {"resolves"},
   ids |-> {<<"id", 0>>},
   maxInflight |-> MaxSelectInflight, maxFailures |-> MaxSelectFailures]

CursorInit ==
  \E configs \in CursorLists :
    Constructed(configs,
                Options([failureThreshold |-> 1, minHealthy |-> -1,
                         onEndpointUnhealthy |-> FALSE]),
                0, FALSE)

CursorNext ==
  /\ \E b \in 1..Len(balancers) : LbStep(b, CursorInputs) \/ GetStatus(b)
  /\ UNCHANGED gwVars

\* The caller goes on calling and every upstream call ends (the promise of
\* fetch settles): no fairness is assumed about which operation is called.
CursorSpec == CursorInit /\ [][CursorNext]_vars /\ WF_vars(CursorNext)

(***************************************************************************)
(* The gateway.                                                            *)
(***************************************************************************)
\* A RouteConfig: its id, its methods, the endpoints of its pool and whether
\* its options carry an onEndpointUnhealthy callback (failureThreshold is 1).
RouteOver(id, methods, endpoints, callback) ==
  [id |-> id, methods |-> methods, endpoints |-> endpoints,
   options |-> Options([failureThreshold |-> 1, minHealthy |-> -1,
                        onEndpointUnhealthy |-> callback])]

\* A route over one endpoint without method lists and without a callback.
Route(id, methods) == RouteOver(id, methods, <<Plain("S")>>, FALSE)

\* The gateways that are built: routes, allowedMethods, defaultRouteId and
\* whether CORS is configured.
GatewayConfig(routes, allowed, default, cors) ==
  [cors |-> cors, maxBodyBytes |-> BodyLimit, allowedMethods |-> allowed,
   defaultRouteId |-> default, onEndpointUnhealthy |-> FALSE,
   healthCheckPath |-> Undefined, routes |-> routes, server |-> 0, servers |-> <<>>]

\* The gateway after start() has resolved: its server listens.
Started(gw) == [gw EXCEPT !.server = 1, !.servers = <<"listening">>]

\* A GatewayConfig that also has an onEndpointUnhealthy callback of its own.
WithAlerts(config) == [config EXCEPT !.onEndpointUnhealthy = TRUE]

AllowedMethodsChoices ==
  {NoList, ListOf(<<>>), ListOf(<<"getSlot">>)}

GatewayConfigs ==
  {GatewayConfig(<<Route("default", NoSet)>>, allowed, Undefined, FALSE) :
     allowed \in AllowedMethodsChoices}
    \cup {GatewayConfig(<<Route("default", NoSet), Route("heavy", SetOf({"getLogs"}))>>,
                        NoList, Undefined, TRUE)}
    \cup {GatewayConfig(<<Route("slot", SetOf({"getSlot"})), Route("", SetOf({"getSlot"}))>>,
                        NoList, "", FALSE)}
    \cup {GatewayConfig(<<RouteOver("default", NoSet,
                                    <<Filtered("A", NoSet, SetOf({"getLogs"})),
                                      Plain("B")>>, FALSE)>>,
                        NoList, Undefined, FALSE)}
    \cup {GatewayConfig(<<Route("slot", SetOf({"getSlot"}))>>,
                        ListOf(<<"getSlot">>), "missing", FALSE)}
    \cup {GatewayConfig(<<RouteOver("default", NoSet, <<Plain("S")>>, TRUE)>>,
                        NoList, Undefined, FALSE)}
    \cup {WithAlerts(GatewayConfig(<<Route("main", NoSet)>>, NoList, Undefined, FALSE))}
    \cup {GatewayConfig(<<Route("slot", SetOf({"getSlot"})),
                          Route("logs", SetOf({"getLogs"}))>>,
                        NoList, "logs", FALSE)}
    \cup {GatewayConfig(<<Route("logs", SetOf({"getLogs"}))>>,
                        NoList, Undefined, FALSE)}

\* The entries of a batch, and the payloads.
JsonEntries ==
  {JsonObject("string", m, 7) : m \in {"getSlot", "getLogs", ""}}
    \cup {JsonObject("string", "getSlot", NoId), JsonObject("other", "", 7),
          JsonObject("missing", "", NoId), JsonNull, JsonNumber}

JsonPayloads ==
  JsonEntries \cup {JsonArray(<<>>)}
    \cup {JsonArray(<<x>>) :
            x \in {JsonObject("string", "getLogs", 7), JsonObject("string", "getSlot", NoId),
                   JsonObject("other", "", 7), JsonNull}}
    \cup {JsonArray(<<x, y>>) :
            x \in {JsonObject("string", m, 7) : m \in {"getSlot", "getLogs", ""}},
            y \in {JsonObject("string", "getSlot", 8), JsonObject("other", "", NoId)}}

\* The requests a client sends.
Requests ==
  {Request("POST", Body(BodyLimit), TRUE, p) : p \in JsonPayloads}
    \cup {Request(c[1], Body(c[2]), FALSE, JsonNull) :
            c \in ({"POST"} \X {0, BodyLimit, BodyLimit + 1})
                    \cup ({"GET", "OPTIONS"} \X {BodyLimit, BodyLimit + 1})}

\* What the upstream calls of the gateway end with.
GatewayResults ==
  {Response(s, l) : s \in ResponseStatuses, l \in LatencyValues} \cup {UpstreamError}

GatewayInit ==
  \E config \in GatewayConfigs :
    /\ gateway = Started(config)
    /\ balancers = [r \in 1..Len(config.routes) |->
                      NewLoadBalancer(config.routes[r].endpoints,
                                      config.routes[r].options)]
    /\ inflight = EmptyBag
    /\ timers = EmptyBag
    /\ last = Idle
    /\ watch = NoWatch
    /\ window = NoWindow
    /\ handled = NotHandled

GatewayNext ==
  \/ \E req \in Requests : GwRequest(req, MaxSelectInflight)
  \/ \E call \in BagToSet(inflight), r \in GatewayResults :
       \E cb \in IF balancers[call.b].options.onEndpointUnhealthy
                  THEN CallbackBehaviours ELSE {"resolves"} :
         GwComplete(call, r, cb, MaxGatewayFailures)

GatewaySpec == GatewayInit /\ [][GatewayNext]_vars

(***************************************************************************)
(* Timeouts and cancellation: a gateway whose pool has an endpoint with a   *)
(* timeoutMs and one without, or a LoadBalancer over the same pool that is  *)
(* called with and without a signal.                                        *)
(***************************************************************************)
TimeoutEndpoints == <<Timed("T", 30), Plain("S")>>

TimeoutRequests ==
  {Request("POST", Body(BodyLimit), TRUE, JsonObject("string", "getSlot", 7))}

\* The signals a caller of fetch gives: none, one that is live and one that
\* is aborted already.
Signals == {"none", "live", "aborted"}

TimeoutInit ==
  \/ /\ gateway = Started(GatewayConfig(<<RouteOver("default", NoSet,
                                                   TimeoutEndpoints, FALSE)>>,
                                        NoList, Undefined, FALSE))
     /\ balancers = [r \in 1..Len(gateway.routes) |->
                       NewLoadBalancer(gateway.routes[r].endpoints,
                                       gateway.routes[r].options)]
     /\ inflight = EmptyBag
     /\ timers = EmptyBag
     /\ last = Idle
     /\ watch = NoWatch
     /\ window = NoWindow
     /\ handled = NotHandled
  \/ \E t \in {1, 2} :
       Constructed(TimeoutEndpoints,
                   Options([failureThreshold |-> t, minHealthy |-> -1,
                            onEndpointUnhealthy |-> TRUE]),
                   1, FALSE)

TimeoutNext ==
  \/ /\ gateway # NoGateway
     /\ \/ \E req \in TimeoutRequests : GwRequest(req, MaxSelectInflight)
        \/ \E call \in BagToSet(inflight), r \in GatewayResults :
             GwComplete(call, r, "resolves", MaxGatewayFailures)
        \/ \E call \in BagToSet(inflight) : ClientAborts(call)
  \/ /\ gateway = NoGateway
     /\ UNCHANGED gwVars
     /\ \/ \E signal \in Signals : Fetch(1, <<>>, MaxSelectInflight, "direct",
                                       RequestInit(signal, {}, <<>>))
        \/ \E call \in BagToSet(inflight), r \in GatewayResults :
             FetchComplete(call, r.outcome, r.status, r.latencyMs, "resolves",
                           MaxGatewayFailures)
        \/ \E call \in BagToSet(inflight) : CallerAborts(call)
  \/ /\ UNCHANGED gwVars
     /\ \/ \E call \in BagToSet(inflight) : TimerFires(call)
        \/ \E t \in BagToSet(timers) : LeakedTimerFires(t)

TimeoutSpec == TimeoutInit /\ [][TimeoutNext]_vars

(***************************************************************************)
(* Forwards of the gateway step by step: the upstream call ends, the head  *)
(* is written, the body is read.  One route over an endpoint with a        *)
(* timeoutMs and one without; several requests are in flight.              *)
(***************************************************************************)
MaxForwards == 2

ForwardInit ==
  /\ gateway = Started(GatewayConfig(<<RouteOver("default", NoSet,
                                                 TimeoutEndpoints, FALSE)>>,
                                     NoList, Undefined, FALSE))
  /\ balancers = <<NewLoadBalancer(TimeoutEndpoints,
                                   gateway.routes[1].options)>>
  /\ inflight = EmptyBag
  /\ timers = EmptyBag
  /\ last = Idle
  /\ watch = NoWatch
  /\ window = NoWindow
  /\ handled = NotHandled

ForwardNext ==
  \/ \E req \in TimeoutRequests : GwRequest(req, MaxForwards)
  \/ \E call \in BagToSet(inflight), r \in GatewayResults :
       GwHead(call, r, "resolves", MaxGatewayFailures)
  \/ \E call \in BagToSet(inflight), ok \in BOOLEAN : GwBody(call, ok)
  \/ \E call \in BagToSet(inflight) : GwBodyTimer(call)
  \/ /\ UNCHANGED gwVars
     /\ \/ \E call \in BagToSet(inflight) : call.head = 0 /\ TimerFires(call)
        \/ \E t \in BagToSet(timers) : LeakedTimerFires(t)

ForwardSpec == ForwardInit /\ [][ForwardNext]_vars

(***************************************************************************)
(* Concurrent forwards on one pool of two or three endpoints: a fetch runs  *)
(* from its call to its await without interruption, and the completions of  *)
(* the awaited calls come in any order between later selections.            *)
(***************************************************************************)
ConcurrentLists ==
  {<<Plain("A"), Plain("B")>>, <<Plain("A"), Plain("B"), Plain("C")>>}

ConcurrentResults == {Response(200, 12), UpstreamError}

ConcurrentInit ==
  \E configs \in ConcurrentLists :
    Constructed(configs,
                Options([failureThreshold |-> 1, minHealthy |-> -1,
                         onEndpointUnhealthy |-> FALSE]),
                0, TRUE)

ConcurrentNext ==
  /\ \/ GetUrl(1)
     \/ Fetch(1, <<>>, MaxInflight, "direct", RequestInit("none", {}, <<>>))
     \/ \E call \in BagToSet(inflight), r \in ConcurrentResults :
          FetchComplete(call, r.outcome, r.status, r.latencyMs, "resolves",
                        MaxSelectFailures)
  /\ UNCHANGED gwVars

ConcurrentSpec == ConcurrentInit /\ [][ConcurrentNext]_vars

(***************************************************************************)
(* The gateway as a proxy: what crosses it.  One route over one endpoint;  *)
(* the requests differ in their headers, in the bytes and the chunks of    *)
(* their bodies and in their paths, the responses in their headers.  The   *)
(* bytes of a body stand for the part of its JSON text that varies (the    *)
(* content of a string literal).                                           *)
(***************************************************************************)
MaxProxyInflight == 1

\* A GatewayConfig with a healthCheckPath, as the example gateways pass.
WithHealthCheck(config, path) == [config EXCEPT !.healthCheckPath = path]

\* n bytes "a".
Bytes(n) == [i \in 1..n |-> 97]

\* The header names a client sends (IncomingMessage.headers keeps the value
\* of every name; the names are compared in lower case).
RequestHeaderSets ==
  {{}, {"Host", "content-type"}, {"content-length", "Connection"},
   {"Content-Encoding", "x-api-key"}, {"transfer-encoding"}}

\* The header names an upstream returns (Headers.entries() gives them in
\* lower case).
ResponseHeaderSets ==
  {{}, {"content-type", "content-length"}, {"content-encoding", "connection"},
   {"transfer-encoding"}, {"host", "content-type"}}

\* Bodies around the limit, in one chunk and in several.
LimitBodies ==
  {<<Bytes(BodyLimit)>>, <<Bytes(1), Bytes(BodyLimit - 1)>>,
   <<Bytes(BodyLimit + 1)>>, <<Bytes(BodyLimit), Bytes(1)>>,
   <<Bytes(BodyLimit - 1), Bytes(2)>>}

\* Bodies with bytes above 127: U+00E9 in one chunk and split over two, and
\* sequences that are not UTF-8.
Utf8Bodies ==
  {<<<<195, 169>>>>, <<<<195>>, <<169>>>>, <<<<255, 97>>>>, <<<<97>>, <<195>>>>,
   <<<<169, 97>>>>}

ProxyRequests ==
  {[Request("POST", <<Bytes(BodyLimit)>>, TRUE, JsonObject("string", "getSlot", 7))
      EXCEPT !.headers = h] : h \in RequestHeaderSets}
    \cup {Request("POST", chunks, TRUE, p) :
            chunks \in LimitBodies \cup Utf8Bodies,
            p \in {JsonObject("string", "getSlot", 7),
                   JsonArray(<<JsonObject("string", "getSlot", 7),
                               JsonObject("string", "getLogs", 8)>>)}}
    \cup {[Request("GET", <<>>, FALSE, JsonNull) EXCEPT !.path = path] :
            path \in {"/", "/health"}}

ProxyResults ==
  {[Response(200, 12) EXCEPT !.headers = h] : h \in ResponseHeaderSets}
    \cup {[Response(500, 12) EXCEPT !.headers = {"connection", "content-type"}],
          UpstreamError}

ProxyInit ==
  /\ gateway = Started(WithHealthCheck(
                         GatewayConfig(<<RouteOver("default", NoSet, <<Plain("A")>>,
                                                   FALSE)>>,
                                       NoList, Undefined, FALSE),
                         "/health"))
  /\ balancers = [r \in 1..Len(gateway.routes) |->
                    NewLoadBalancer(gateway.routes[r].endpoints,
                                    gateway.routes[r].options)]
  /\ inflight = EmptyBag
  /\ timers = EmptyBag
  /\ last = Idle
  /\ watch = NoWatch
  /\ window = NoWindow
  /\ handled = NotHandled

ProxyNext ==
  \/ \E req \in ProxyRequests : GwRequest(req, MaxProxyInflight)
  \/ \E call \in BagToSet(inflight), r \in ProxyResults :
       GwComplete(call, r, "resolves", MaxGatewayFailures)

ProxySpec == ProxyInit /\ [][ProxyNext]_vars

(***************************************************************************)
(* The gateway's server.  gateway.servers holds every server createServer  *)
(* has made, each "binding", "listening", "failed" (its bind gave an       *)
(* error) or "closed"; gateway.server is the position of this.server in    *)
(* it, 0 when this.server is undefined.  All servers are for the same port *)
(* and host, so one of them listens at a time.                             *)
(***************************************************************************)
MaxServers == 2

\* Mutant of start: a server is created whether or not there is one.
Start_again ==
  /\ Len(gateway.servers) < MaxServers
  /\ gateway' = [gateway EXCEPT !.servers = Append(@, "binding"),
                                !.server = Len(gateway.servers) + 1]
  /\ last' = [Idle EXCEPT !.op = "start", !.returns = "pending"]
  /\ UNCHANGED <<balancers, inflight, timers, watch, window, handled>>

\* start, up to the await of the listen promise, or to its return when
\* this.server is set (returns: the promise of start is resolved, or pending
\* until the bind ends).
Start ==
  /\ IF gateway.server # 0
     THEN UNCHANGED gateway
     ELSE /\ Len(gateway.servers) < MaxServers
          /\ gateway' = [gateway EXCEPT !.servers = Append(@, "binding"),
                                        !.server = Len(gateway.servers) + 1]
  /\ last' = [Idle EXCEPT !.op = "start",
                          !.returns = IF gateway.server # 0 THEN "resolved"
                                      ELSE "pending"]
  /\ UNCHANGED <<balancers, inflight, timers, watch, window, handled>>

\* The bind of a server succeeds: the listen callback resolves start's promise.
Listening(s) ==
  /\ gateway.servers[s] = "binding"
  /\ \A o \in 1..Len(gateway.servers) : gateway.servers[o] # "listening"
  /\ gateway' = [gateway EXCEPT !.servers[s] = "listening"]
  /\ last' = [Idle EXCEPT !.op = "listening"]
  /\ UNCHANGED <<balancers, inflight, timers, watch, window, handled>>

\* The bind of a server fails: its "error" event rejects start's promise, and
\* this.server is left as it is.
BindFails(s) ==
  /\ gateway.servers[s] = "binding"
  /\ gateway' = [gateway EXCEPT !.servers[s] = "failed"]
  /\ last' = [Idle EXCEPT !.op = "bindError"]
  /\ UNCHANGED <<balancers, inflight, timers, watch, window, handled>>

\* What server.close() makes of a server: a listening server stops listening
\* at once; a server whose bind is still pending is either closed or binds
\* all the same, depending on the runtime; a failed or closed one stays so.
CloseOutcomes(state) ==
  CASE state = "listening" -> {"closed"}
    [] state = "binding" -> {"closed", "binding"}
    [] OTHER -> {state}

\* stop, up to the await of the close promise.
Stop ==
  /\ IF gateway.server = 0
     THEN UNCHANGED gateway
     ELSE \E after \in CloseOutcomes(gateway.servers[gateway.server]) :
            gateway' = [gateway EXCEPT !.server = 0,
                                      !.servers[gateway.server] = after]
  /\ last' = [Idle EXCEPT !.op = "stop"]
  /\ UNCHANGED <<balancers, inflight, timers, watch, window, handled>>

LifecycleRequests ==
  {Request("POST", <<Bytes(BodyLimit)>>, TRUE, JsonObject("string", "getSlot", 7)),
   Request("GET", <<>>, FALSE, JsonNull)}

LifecycleResults == {Response(200, 12), UpstreamError}

\* The state after construction: no server.
LifecycleInit ==
  /\ gateway = GatewayConfig(<<RouteOver("default", NoSet, <<Plain("A")>>, FALSE)>>,
                             NoList, Undefined, FALSE)
  /\ balancers = [r \in 1..Len(gateway.routes) |->
                    NewLoadBalancer(gateway.routes[r].endpoints,
                                    gateway.routes[r].options)]
  /\ inflight = EmptyBag
  /\ timers = EmptyBag
  /\ last = Idle
  /\ watch = NoWatch
  /\ window = NoWindow
  /\ handled = NotHandled

LifecycleNext ==
  \/ Start
  \/ Stop
  \/ \E s \in 1..Len(gateway.servers) : Listening(s)
  \/ \E s \in 1..Len(gateway.servers) : BindFails(s)
  \/ \E req \in LifecycleRequests : GwRequest(req, MaxProxyInflight)
  \/ \E call \in BagToSet(inflight), r \in LifecycleResults :
       GwComplete(call, r, "resolves", MaxGatewayFailures)

LifecycleSpec == LifecycleInit /\ [][LifecycleNext]_vars

(***************************************************************************)
(* Construction.  Nothing exists at first; new LoadBalancer and new        *)
(* RpcGateway build a pool or a gateway, or throw and build nothing.  What *)
(* was built is then used through getUrl and fetch.                        *)
(***************************************************************************)
\* Mutant of the constructor: an endpoint without url is accepted.
LoadBalancerError_noUrlCheck(configs) ==
  IF Len(configs) = 0 THEN "LoadBalancer requires at least one endpoint."
  ELSE Undefined

\* The error the LoadBalancer constructor throws for a list of endpoints,
\* Undefined when it throws none (!config.url holds for the empty url).
LoadBalancerError(configs) ==
  IF Len(configs) = 0 THEN "LoadBalancer requires at least one endpoint."
  ELSE IF \E i \in 1..Len(configs) : configs[i].url = ""
       THEN "Endpoint must include a url."
  ELSE Undefined

\* The error the RpcGateway constructor throws: its own for no routes, else
\* the error of the first route whose pool cannot be built.
RpcGatewayError(config) ==
  IF Len(config.routes) = 0 THEN "RpcGateway requires at least one route."
  ELSE LET bad == {r \in 1..Len(config.routes) :
                     LoadBalancerError(config.routes[r].endpoints) # Undefined}
       IN  IF bad = {} THEN Undefined
           ELSE LoadBalancerError(
                  config.routes[CHOOSE r \in bad : \A o \in bad : r <= o].endpoints)

\* new LoadBalancer(endpoints, options); given holds the options as passed
\* (failureThreshold 0 and minHealthy -1 stand for an option that is absent).
Construct(configs, given) ==
  LET error == LoadBalancerError(configs)
  IN  /\ balancers = <<>>
      /\ gateway = NoGateway
      /\ balancers' = IF error = Undefined
                      THEN <<NewLoadBalancer(configs, Options(given))>>
                      ELSE balancers
      /\ last' = [Idle EXCEPT !.op = "new LoadBalancer",
                              !.arg = [endpoints |-> configs, options |-> given],
                              !.returns = IF error = Undefined THEN "nothing"
                                          ELSE "throws",
                              !.error = error]
      /\ UNCHANGED <<inflight, timers, watch, window, gateway, handled>>

\* new RpcGateway(config)
ConstructGateway(config) ==
  LET error == RpcGatewayError(config)
  IN  /\ balancers = <<>>
      /\ gateway = NoGateway
      /\ IF error = Undefined
         THEN /\ gateway' = config
              /\ balancers' = [r \in 1..Len(config.routes) |->
                                 NewLoadBalancer(config.routes[r].endpoints,
                                                 config.routes[r].options)]
         ELSE UNCHANGED <<gateway, balancers>>
      /\ last' = [Idle EXCEPT !.op = "new RpcGateway",
                              !.arg = config,
                              !.returns = IF error = Undefined THEN "nothing"
                                          ELSE "throws",
                              !.error = error]
      /\ UNCHANGED <<inflight, timers, watch, window, handled>>

\* The endpoint lists and the options that are passed to the constructor.
ConstructLists ==
  {<<>>, <<Plain("A")>>, <<Plain("")>>, <<Plain("A"), Plain("B")>>,
   <<Plain("A"), Plain("")>>, <<Timed("A", 30), Filtered("B", SetOf({"getSlot"}), NoSet)>>}

ConstructOptions ==
  {[failureThreshold |-> t, minHealthy |-> m, onEndpointUnhealthy |-> FALSE] :
     t \in {0, 1, 5}, m \in {-1, 0, 2}}

ConstructGateways ==
  {GatewayConfig(routes, NoList, Undefined, FALSE) :
     routes \in {<<>>,
                 <<Route("default", NoSet)>>,
                 <<RouteOver("default", NoSet, <<>>, FALSE)>>,
                 <<Route("default", NoSet),
                   RouteOver("heavy", SetOf({"getLogs"}), <<Plain("A"), Plain("")>>,
                             FALSE)>>,
                 <<Route("default", NoSet),
                   RouteOver("heavy", SetOf({"getLogs"}), <<Plain("A"), Plain("B")>>,
                             TRUE)>>}}

ConstructInit ==
  /\ balancers = <<>>
  /\ gateway = NoGateway
  /\ inflight = EmptyBag
  /\ timers = EmptyBag
  /\ last = Idle
  /\ watch = NoWatch
  /\ window = NoWindow
  /\ handled = NotHandled

ConstructNext ==
  \/ \E configs \in ConstructLists, given \in ConstructOptions :
       Construct(configs, given)
  \/ \E config \in ConstructGateways : ConstructGateway(config)
  \/ \E b \in 1..Len(balancers) :
       /\ UNCHANGED gwVars
       /\ \/ GetUrl(b)
          \/ Fetch(b, <<>>, MaxProxyInflight, "direct", RequestInit("none", {}, <<>>))
          \/ \E call \in BagToSet(inflight), r \in LifecycleResults :
               /\ call.b = b
               /\ FetchComplete(call, r.outcome, r.status, r.latencyMs, "resolves",
                                MaxGatewayFailures)

ConstructSpec == ConstructInit /\ [][ConstructNext]_vars

(***************************************************************************)
(* Properties.  The terms below are those of the specification, written    *)
(* without the operators of the model.                                     *)
(***************************************************************************)
\* An endpoint supports a method when the method is not in its blocklist and
\* its whitelist is absent or contains the method.
Supports(endpoint, m) ==
  /\ ~(endpoint.blockedMethods.has /\ m \in endpoint.blockedMethods.vals)
  /\ endpoint.methods.has => m \in endpoint.methods.vals

\* The candidates of a selection, in insertion order: the endpoints that
\* support every requested method.
CandidateSeq(lb, methods) ==
  LET ok(i) == \A k \in 1..Len(methods) : Supports(lb.endpoints[i], methods[k])
  IN  SelectSeq([i \in 1..Len(lb.endpoints) |-> i], ok)

\* The healthy candidates of a selection.
HealthyCandidates(lb, methods) ==
  {i \in Range(CandidateSeq(lb, methods)) : lb.endpoints[i].healthy}

\* How many times e occurs in seq.
Count(seq, e) == Cardinality({j \in 1..Len(seq) : seq[j] = e})

\* The operations that end with a selection handed to the caller.
Selections == {"getUrl", "getEndpoint", "fetch"}

\* The last operation was a forward that completed as a failure.
FailedForward == last.op = "fetchDone" /\ last.upstream \in {"not ok", "error"}

\* The endpoint the last operation acted on.
LastEndpoint == balancers[last.b].endpoints[last.endpoint]

\* C1: while the pool handed to the round-robin step does not change,
\* consecutive selections walk the pool in cyclic insertion order, so among N
\* of them each of the k endpoints is returned floor(N/k) or ceil(N/k) times;
\* the first selections over three healthy endpoints return A, B, C, A.
C1_RoundRobinOverStablePool ==
  window.on =>
    LET pool  == window.pool
        picks == window.picks
        k     == Len(pool)
        N     == Len(picks)
    IN  /\ \A i \in 1..k, j \in 1..k : i < j => pool[i] < pool[j]
        /\ \A j \in 1..N : \E i \in 1..k : picks[j] = pool[i]
        /\ \A j \in 1..(N - 1) :
             \E i \in 1..k : picks[j] = pool[i] /\ picks[j + 1] = pool[(i % k) + 1]
        /\ \A i \in 1..k :
             Count(picks, pool[i]) \in {N \div k, (N + k - 1) \div k}
        /\ (window.fresh /\ pool = <<1, 2, 3>>) =>
             \A j \in 1..N : picks[j] = ((j - 1) % 3) + 1

\* C1, witness: four selections since construction over A, B, C, all healthy.
C1_Witness ==
  /\ window.on /\ window.fresh
  /\ window.pool = <<1, 2, 3>>
  /\ window.picks = <<1, 2, 3, 1>>
  /\ \A i \in 1..3 : balancers[1].endpoints[i].healthy

\* C2: a failed forward on an endpoint that was healthy leaves it healthy when
\* fewer than failureThreshold forwards have failed on it since its counter was
\* last zero, and makes it unhealthy when this is failure number
\* failureThreshold.
C2_UnhealthyAtThreshold ==
  (FailedForward /\ last.wasHealthy /\ watch.e = last.endpoint /\ watch.b = last.b) =>
    LET threshold == balancers[last.b].options.failureThreshold
    IN  /\ watch.fails < threshold => LastEndpoint.healthy
        /\ watch.fails = threshold => ~LastEndpoint.healthy
        /\ watch.fails <= threshold
        /\ LastEndpoint.healthy => LastEndpoint.consecutiveFailures = watch.fails

\* C2, witness: with threshold 3 the third failure in a row has just made the
\* endpoint unhealthy.
C2_Witness ==
  /\ FailedForward /\ last.wasHealthy /\ watch.e = last.endpoint
  /\ balancers[1].options.failureThreshold = 3
  /\ watch.fails = 3
  /\ ~LastEndpoint.healthy

\* C2, witness of the other half: with threshold 3 the second failure in a
\* row has left the endpoint healthy.
C2_WitnessBelow ==
  /\ FailedForward /\ last.wasHealthy /\ watch.e = last.endpoint
  /\ balancers[1].options.failureThreshold = 3
  /\ watch.fails = 2
  /\ LastEndpoint.healthy

\* C3: with an alert callback configured, the alerts emitted for an endpoint
\* are as many as its transitions from healthy to unhealthy.
C3_AlertsEqualTransitions ==
  (watch.e # 0 /\ balancers[watch.b].options.onEndpointUnhealthy) =>
    watch.alerts = watch.transitions

\* C4: at most one alert is emitted for an endpoint between its becoming
\* unhealthy and its next return to healthy.
C4_OneAlertPerInterval ==
  watch.e # 0 => watch.intervalAlerts <= 1

\* C4, witness: the endpoint is unhealthy, its alert has been emitted, and a
\* further markUnhealthy or failed forward has just acted on it.
C4_Witness ==
  /\ watch.e # 0 /\ watch.intervalAlerts = 1
  /\ last.endpoint = watch.e /\ ~last.wasHealthy
  /\ (last.op = "markUnhealthy" \/ FailedForward)
  /\ ~LastEndpoint.healthy

\* C5: when the healthy candidates of a selection are at least minHealthy and
\* at least one, the selection returns one of them; with A and B, the default
\* minHealthy and A unhealthy it returns B.
C5_HealthyReturnedWhenEnough ==
  last.op \in Selections =>
    LET lb      == balancers[last.b]
        healthy == HealthyCandidates(lb, last.methods)
    IN  (Cardinality(healthy) >= lb.options.minHealthy /\ Cardinality(healthy) >= 1)
          => ~last.threw /\ last.endpoint \in healthy

\* C5, witness: A is unhealthy, B is healthy, minHealthy is 1 and the last two
\* selections both returned B.
C5_Witness ==
  /\ last.op \in Selections /\ last.endpoint = 2
  /\ Len(balancers[1].endpoints) = 2
  /\ balancers[1].options.minHealthy = 1
  /\ ~balancers[1].endpoints[1].healthy /\ balancers[1].endpoints[2].healthy
  /\ window.pool = <<2>> /\ Len(window.picks) >= 2

\* C6: when the healthy candidates of a selection are fewer than minHealthy,
\* the selection takes the candidate under the cursor, counting over all the
\* candidates, unhealthy ones included, and moves the cursor to the next of
\* them; so two selections in a row over A (unhealthy) and B with minHealthy 2
\* return both.
C6_FallbackToAllCandidates ==
  last.op \in Selections =>
    LET lb         == balancers[last.b]
        candidates == CandidateSeq(lb, last.methods)
        healthy    == HealthyCandidates(lb, last.methods)
        k          == Len(candidates)
    IN  (Cardinality(healthy) < lb.options.minHealthy /\ k > 0) =>
          /\ ~last.threw
          /\ last.endpoint = candidates[(last.cursor % k) + 1]
          /\ lb.rrIndex = (last.cursor + 1) % k

\* C6, witness: minHealthy is 2, A is unhealthy and B healthy, and the last two
\* selections returned B and then A.
C6_Witness ==
  /\ last.op \in Selections /\ last.endpoint = 1
  /\ Len(balancers[1].endpoints) = 2
  /\ balancers[1].options.minHealthy = 2
  /\ ~balancers[1].endpoints[1].healthy /\ balancers[1].endpoints[2].healthy
  /\ window.pool = <<1, 2>> /\ Len(window.picks) >= 2
  /\ window.picks[Len(window.picks) - 1] = 2
  /\ window.picks[Len(window.picks)] = 1

\* C7: a selection never throws and returns one of the configured endpoints,
\* whatever the health of the endpoints, minHealthy and the methods asked for.
C7_SelectNeverFails ==
  last.op \in Selections =>
    /\ ~last.threw
    /\ last.endpoint \in 1..Len(balancers[last.b].endpoints)

\* C7, witness: a fetch for methods that no endpoint supports, with every
\* endpoint unhealthy, has selected an endpoint.
C7_Witness ==
  /\ last.op = "fetch" /\ ~last.threw /\ last.endpoint # 0
  /\ CandidateSeq(balancers[1], last.methods) = <<>>
  /\ \A i \in 1..Len(balancers[1].endpoints) : ~balancers[1].endpoints[i].healthy

\* C7, witness of the one-endpoint pool: its endpoint is unhealthy and is
\* returned.
C7_WitnessSingle ==
  /\ last.op \in Selections /\ last.endpoint = 1
  /\ Len(balancers[1].endpoints) = 1
  /\ ~balancers[1].endpoints[1].healthy

\* C8: right after a forward on an endpoint completes with a 2xx response the
\* endpoint is healthy, its consecutiveFailures is 0, it has no lastError and
\* its alertSent is false.
C8_StateAfterSuccess ==
  (last.op = "fetchDone" /\ last.upstream = "ok") =>
    /\ LastEndpoint.healthy
    /\ LastEndpoint.consecutiveFailures = 0
    /\ LastEndpoint.lastError = Undefined
    /\ ~LastEndpoint.alertSent

\* C8, witness: a 2xx response has just arrived for an endpoint that was
\* unhealthy and had been alerted about.
C8_Witness ==
  /\ last.op = "fetchDone" /\ last.upstream = "ok"
  /\ ~last.wasHealthy
  /\ watch.e = last.endpoint /\ watch.alerts >= 1 /\ watch.transitions >= 1

\* C9: whatever the alert callback does, a forward hands the upstream response
\* to its caller when there is one and throws the upstream error when there is
\* none, and markUnhealthy returns normally.
C9_CallbackNeverReachesCaller ==
  /\ (last.op = "fetchDone" /\ last.upstream \in {"ok", "not ok"}) =>
       last.returns = "response"
  /\ (last.op = "fetchDone" /\ last.upstream = "error") =>
       last.returns = "throws" /\ last.error = UpstreamErrorMessage
  /\ last.op = "markUnhealthy" => ~last.threw

\* A callback that returns a rejected promise does not reach the caller.
RejectionContained ==
  last.cb = "rejects" =>
    /\ ~last.threw
    /\ last.error # CallbackErrorMessage
    /\ last.upstream = "not ok" => last.returns = "response"

\* C10: with a global allowedMethods configured, a request is forwarded only
\* if every extracted method is in it, and a request with a method that is
\* not in it is answered HTTP 200 with error -32601 "Method not allowed: "
\* followed by the first such method.
C10_GlobalAllowlist ==
  (gateway.allowedMethods.has /\ Len(handled.methods) > 0) =>
    LET allowed    == Range(gateway.allowedMethods.vals)
        disallowed == {k \in 1..Len(handled.methods) : handled.methods[k] \notin allowed}
    IN  IF disallowed = {}
        THEN handled.message # "Method not allowed: "
        ELSE /\ handled.decision = "replied"
             /\ handled.status = 200
             /\ handled.code = -32601
             /\ handled.message = "Method not allowed: "
             /\ \E k \in disallowed : /\ \A j \in disallowed : k <= j
                                      /\ handled.arg = handled.methods[k]

\* The routes that match a list of methods: those without a method filter and
\* those whose filter contains every method.
MatchingRoutes(methods) ==
  {r \in 1..Len(gateway.routes) :
     \/ ~gateway.routes[r].methods.has
     \/ \A k \in 1..Len(methods) : methods[k] \in gateway.routes[r].methods.vals}

\* The routes named by defaultRouteId (none when it is absent or empty).
DefaultRoutes ==
  {r \in 1..Len(gateway.routes) :
     /\ gateway.defaultRouteId \notin {Undefined, ""}
     /\ gateway.routes[r].id = gateway.defaultRouteId}

\* The request handled last reached the resolution of its route.
ReachedRouting ==
  Len(handled.methods) > 0 /\ handled.message # "Method not allowed: "

C11_WitnessDefault ==
  /\ handled.decision = "forwarded"
  /\ MatchingRoutes(handled.methods) = {}
  /\ handled.route \in DefaultRoutes

\* C11, witness of the error: no route matches and defaultRouteId names none.
C11_WitnessNotFound ==
  /\ handled.message = "Method not found."
  /\ gateway.defaultRouteId = "missing"

\* An endpoint supports every method of a list.
SupportsAll(endpoint, methods) ==
  \A k \in 1..Len(methods) : Supports(endpoint, methods[k])

\* C12: a request forwarded by the gateway over a route whose pool has an
\* endpoint that supports every extracted method goes to an endpoint that
\* supports every extracted method.
C12_ForwardedToSupportingEndpoint ==
  handled.decision = "forwarded" =>
    LET lb == balancers[handled.route]
    IN  (\E i \in 1..Len(lb.endpoints) : SupportsAll(lb.endpoints[i], handled.methods))
          => SupportsAll(lb.endpoints[handled.endpoint], handled.methods)

AnsweredAfterForward ==
  /\ last.op = "fetchDone"
  /\ handled.decision = "replied"
  /\ handled.route = last.b /\ handled.endpoint = last.endpoint

\* C14: the gateway passes an upstream response with a non-2xx status on with
\* that status, answers 502 "Bad Gateway: Upstream request failed." when the
\* upstream call gave no response, and in both cases the failure has been
\* counted on the endpoint when the answer is written.
C14_SoftPassesHardIs502 ==
  AnsweredAfterForward =>
    /\ last.upstream = "not ok" =>
         /\ handled.status = last.upstreamStatus
         /\ handled.message = "upstream"
         /\ last.counted >= 1
    /\ last.upstream = "error" =>
         /\ handled = [BadGateway EXCEPT !.route = last.b, !.endpoint = last.endpoint]
         /\ last.counted >= 1

\* C14 holds on the forwards during which no alert callback throws.
C14_WithoutThrowingCallback ==
  last.cb # "throws" => C14_SoftPassesHardIs502

\* The positions of the methods of the request handled last that are outside
\* the global allowlist.
Disallowed ==
  {k \in 1..Len(handled.methods) :
     handled.methods[k] \notin Range(gateway.allowedMethods.vals)}

\* The allowlist is empty, or the first method outside it is the empty string.
EmptyListOrName ==
  \/ gateway.allowedMethods.vals = <<>>
  \/ \E k \in Disallowed : /\ \A j \in Disallowed : k <= j
                           /\ handled.methods[k] = ""

RECURSIVE BodyBytes(_)
\* The number of bytes of a body received in chunks.
BodyBytes(chunks) ==
  IF chunks = <<>> THEN 0 ELSE Len(Head(chunks)) + BodyBytes(Tail(chunks))

C15_WitnessNotAllowed ==
  /\ handled.message = "Method not allowed: " /\ handled.arg = "getLogs"
  /\ MatchingRoutes(handled.methods) = {} /\ DefaultRoutes = {}

\* The id of an entry or of a single payload: that of an object which has one,
\* null otherwise.
IdOrNull(p) == IF p.t = "object" /\ p.id # NoId THEN p.id ELSE NoId

\* The payload the request handled last parsed to (null for an empty body or
\* for invalid JSON).
ParsedPayload ==
  IF BodyBytes(handled.req.chunks) > 0 /\ handled.req.valid THEN handled.req.payload ELSE JsonNull

\* C16: a JSON-RPC error written by the gateway has HTTP status 200; for a
\* batch it is an array with one error object per entry, the i-th with the id
\* of the i-th entry or null; for any other payload it is one object with the
\* id of the request or null.
C16_ErrorShape ==
  handled.code # 0 =>
    /\ handled.status = 200
    /\ IF ParsedPayload.t = "array"
       THEN /\ handled.body.batch
            /\ Len(handled.body.ids) = Len(ParsedPayload.items)
            /\ \A i \in 1..Len(ParsedPayload.items) :
                 handled.body.ids[i] = IdOrNull(ParsedPayload.items[i])
       ELSE /\ ~handled.body.batch
            /\ handled.body.ids = <<IdOrNull(ParsedPayload)>>

\* C16, witness: a batch of two entries, the first with id 7 and the second
\* without an id, was answered with two errors, for 7 and for null.
C16_Witness ==
  /\ handled.code # 0
  /\ ParsedPayload.t = "array" /\ Len(ParsedPayload.items) = 2
  /\ handled.body.ids = <<7, NoId>>

\* C16, witness of the single payload: an object with id 7 was answered with
\* one error for 7.
C16_WitnessSingle ==
  /\ handled.code # 0
  /\ ParsedPayload.t = "object"
  /\ handled.body = [batch |-> FALSE, ids |-> <<7>>]

\* A string method can be extracted from a payload: it is an object whose
\* method is a string, or an array with such an entry.
HasStringMethod(payload) ==
  \/ payload.t = "object" /\ payload.mkind = "string"
  \/ /\ payload.t = "array"
     /\ \E i \in 1..Len(payload.items) :
          payload.items[i].t = "object" /\ payload.items[i].mkind = "string"

\* The request handled last was a POST whose body was accepted and parsed.
Parsed ==
  /\ handled.req.httpMethod = "POST"
  /\ BodyBytes(handled.req.chunks) <= gateway.maxBodyBytes
  /\ BodyBytes(handled.req.chunks) = 0 \/ handled.req.valid

\* C17: a parsed payload without a string method is answered HTTP 200 with a
\* body that contains an error -32600 "Invalid Request." and is not forwarded;
\* a batch with a string method is not answered -32600.
C17_InvalidRequest ==
  Parsed =>
    IF HasStringMethod(ParsedPayload)
    THEN handled.code # -32600
    ELSE /\ handled.decision = "replied"
         /\ handled.status = 200
         /\ handled.code = -32600
         /\ handled.message = "Invalid Request."
         /\ Len(handled.body.ids) >= 1

\* C17 holds for every payload but the empty batch.
C17_ExceptEmptyBatch ==
  ParsedPayload # JsonArray(<<>>) => C17_InvalidRequest

\* The forward that ended last was on an endpoint with a timeoutMs whose
\* interval elapsed before a response arrived.
TimedOut == last.op = "fetchDone" /\ last.timer = "fired"

\* C18: when the timeout of an endpoint elapses before a response, the upstream
\* call is cancelled, the forward fails with an error (the gateway answers
\* 502), and the endpoint's consecutiveFailures grows by one and goes through
\* the threshold check.
C18_TimeoutIsHardFailure ==
  /\ \A call \in BagToSet(inflight) : call.timer = "fired" => call.aborted
  /\ TimedOut =>
       LET lb == balancers[last.b]
           e  == lb.endpoints[last.endpoint]
       IN  /\ last.upstream = "error"
           /\ last.returns = "throws"
           /\ last.counted = 1
           /\ e.healthy <=> (last.wasHealthy
                               /\ e.consecutiveFailures < lb.options.failureThreshold)
           /\ gateway # NoGateway =>
                handled.decision = "replied" /\ handled.status = 502

\* A gateway request timed out and was answered 502.
C18_Witness ==
  TimedOut /\ gateway # NoGateway /\ handled.status = 502 /\ last.counted = 1

\* The second timeout in a row reached the threshold of 2.
C18_WitnessThreshold ==
  /\ TimedOut
  /\ last.wasHealthy
  /\ balancers[last.b].options.failureThreshold = 2
  /\ ~balancers[last.b].endpoints[last.endpoint].healthy

\* C19: a forward whose downstream client went away while the upstream call
\* was in flight, or whose caller gave a signal that was aborted (before the
\* request was built or after), ends as a hard failure of the selected
\* endpoint, with or without a timeoutMs.
C19_CallerCancellation ==
  (last.op = "fetchDone" /\ (last.client = "gone" \/ last.signal = "aborted"))
    => last.upstream = "error" /\ last.counted >= 1

\* C19 without the gateway, for signals that were live when the request was
\* built: the caller's abort ends the forward as a hard failure.
C19_LiveSignalPropagates ==
  \A call \in BagToSet(inflight) :
    (call.signal = "aborted" /\ ~call.aborted)
      => (call.controller /\ call.timer = "pending")

\* C20: no timer armed by a forward that has completed is still pending.
C20_NoLeakedTimer == timers = EmptyBag

\* C20 holds for the forwards that end by a cancellation.
C20_ClearedOnAbort ==
  (last.op = "fetchDone" /\ last.timer \in {"fired", "cleared"})
    => last.upstream = "error"

\* C21: with forwards in flight, every selection reads the cursor left by the
\* selection before it, returns the pool entry at that cursor and advances
\* the cursor by one modulo the pool size; no other step moves the cursor; k
\* consecutive selections over an unchanged pool of size k are distinct.
C21_AtomicCursor ==
  [][ LET selected == last'.op \in Selections /\ ~last'.threw
          pool     == window'.pool
          picks    == window'.picks
          k        == Len(pool)
      IN  /\ selected =>
               /\ last'.cursor = balancers[1].rrIndex
               /\ last'.endpoint = pool[(balancers[1].rrIndex % k) + 1]
               /\ balancers'[1].rrIndex = (balancers[1].rrIndex + 1) % k
               /\ \A i \in 1..Len(picks) :
                    i + k - 1 <= Len(picks) =>
                      Cardinality({picks[j] : j \in i..(i + k - 1)}) = k
          /\ ~selected => balancers'[1].rrIndex = balancers[1].rrIndex
    ]_vars

\* Three selections in a row over A, B, C while two forwards are in flight.
C21_Witness ==
  /\ BagCardinality(inflight) = 2
  /\ last.op \in Selections
  /\ window.pool = <<1, 2, 3>>
  /\ Len(window.picks) >= 3

\* The forward that ended last took its endpoint from Healthy to Unhealthy.
FellByForward ==
  last.op = "fetchDone" /\ last.wasHealthy /\ ~LastEndpoint.healthy

\* C22: under a gateway configured with an onEndpointUnhealthy callback, a
\* Healthy -> Unhealthy transition of an endpoint invokes the callback with an
\* alert whose routeId is the id of the route that owns the endpoint.
C22_GatewayAlert ==
  (gateway.onEndpointUnhealthy /\ FellByForward) =>
    /\ last.alert # NoAlert
    /\ last.alert.routeId = gateway.routes[last.b].id

\* What the gateway does instead: only the callback in a route's own options
\* is invoked, and the alert it gets never names the route.
C22_OnlyRouteOptions ==
  (gateway # NoGateway /\ FellByForward) =>
    /\ last.alert # NoAlert <=> gateway.routes[last.b].options.onEndpointUnhealthy
    /\ last.alert # NoAlert => last.alert.routeId = Undefined

\* C23: markHealthy on an existing endpoint leaves it healthy with
\* consecutiveFailures 0 and no lastError, whatever it was before (in
\* particular right after a markUnhealthy on it), and a second markHealthy
\* right after the first changes nothing.
C23_MarkHealthyResets ==
  [][ (last'.op = "markHealthy" /\ last'.endpoint # 0) =>
        LET e == balancers'[last'.b].endpoints[last'.endpoint]
        IN  /\ e.healthy
            /\ e.consecutiveFailures = 0
            /\ e.lastError = Undefined
            /\ (last.op = "markHealthy" /\ last.b = last'.b
                  /\ last.endpoint = last'.endpoint) => balancers' = balancers
    ]_vars

\* markHealthy has just run on an endpoint that had been unhealthy and had
\* alerted: it is healthy again, and alertSent is as markHealthy found it.
C23_Witness ==
  /\ last.op = "markHealthy" /\ last.endpoint # 0
  /\ LastEndpoint.healthy /\ LastEndpoint.alertSent
  /\ watch.transitions >= 1

\* The names the proxy must not let through, in the spellings that occur.
HopByHop ==
  {"host", "Host", "content-length", "connection", "Connection",
   "content-encoding", "Content-Encoding", "transfer-encoding"}

\* C24: none of the headers host, content-length, connection,
\* content-encoding, transfer-encoding (in any letter case) that the client
\* sent is among the caller headers handed to the upstream call, and none that
\* the upstream returned is among the headers of the downstream response.
C24_HopByHopStripped ==
  /\ handled.decision = "forwarded" => handled.upHeaders \cap HopByHop = {}
  /\ (handled.decision = "replied" /\ handled.message = "upstream") =>
       handled.headers \cap HopByHop = {}

\* What the gateway strips: host, content-length and connection of a request,
\* content-length, content-encoding, transfer-encoding and connection of a
\* response; every other header crosses.
C24_StrippedByCode ==
  /\ handled.decision = "forwarded" =>
       handled.upHeaders =
         handled.req.headers \ {"host", "Host", "content-length", "connection",
                                "Connection"}
  /\ (handled.decision = "replied" /\ handled.message = "upstream") =>
       handled.headers =
         handled.resHeaders \ {"content-length", "connection", "content-encoding",
                               "transfer-encoding"}

C25_WitnessRejected ==
  /\ handled.status = 413
  /\ Len(handled.req.chunks) = 2
  /\ BodyBytes(handled.req.chunks) = gateway.maxBodyBytes + 1

\* C27: under a gateway with a healthCheckPath, a GET to that path is answered
\* 200 and not 405.
C27_HealthCheck ==
  (/\ gateway.healthCheckPath # Undefined
   /\ handled.req.httpMethod = "GET"
   /\ handled.req.path = gateway.healthCheckPath) =>
    (handled.decision = "replied" /\ handled.status = 200)

\* What the gateway does instead: a GET is answered 405 whatever its path.
C27_GetIsRefused ==
  handled.req.httpMethod = "GET" =>
    (handled.decision = "replied" /\ handled.status = 405)

RECURSIVE ReceivedBytes(_)
\* The bytes of a body received in chunks, in order.
ReceivedBytes(chunks) ==
  IF chunks = <<>> THEN <<>> ELSE Head(chunks) \o ReceivedBytes(Tail(chunks))

RECURSIVE WellFormed(_)
\* A byte sequence that is UTF-8 text (of code points below U+0800).
WellFormed(bytes) ==
  IF bytes = <<>> THEN TRUE
  ELSE IF bytes[1] < 128 THEN WellFormed(Tail(bytes))
  ELSE /\ bytes[1] \in 194..223
       /\ Len(bytes) >= 2
       /\ bytes[2] \in 128..191
       /\ WellFormed(Tail(Tail(bytes)))

\* C29: the body handed to the upstream call is, byte for byte, the body
\* received from the client.
C29_BodyVerbatim ==
  handled.decision = "forwarded" =>
    handled.upBody = ReceivedBytes(handled.req.chunks)

\* What the gateway keeps: a body that is well-formed UTF-8 is forwarded
\* byte for byte, also when a chunk boundary splits a character.
C29_VerbatimIfWellFormed ==
  (handled.decision = "forwarded" /\ WellFormed(ReceivedBytes(handled.req.chunks))) =>
    handled.upBody = ReceivedBytes(handled.req.chunks)

\* A forwarded body whose two-byte character came in two chunks.
C29_SplitCharacter ==
  /\ handled.decision = "forwarded"
  /\ handled.req.chunks = <<<<195>>, <<169>>>>
  /\ handled.upBody = <<195, 169>>

\* The identifier of the last markHealthy or markUnhealthy names no endpoint
\* of the balancer, neither by id nor by url.
NamesNoEndpoint(lb, arg) ==
  \A i \in 1..Len(lb.endpoints) :
    /\ arg # <<"id", lb.endpoints[i].id>>
    /\ arg # <<"url", lb.endpoints[i].url>>

\* C28: markHealthy and markUnhealthy with an identifier that is no
\* endpoint's id and no endpoint's url leave every endpoint's healthy,
\* consecutiveFailures, lastError and alertSent, the cursor and lastUsed as
\* they were, and emit no alert.
C28_UnknownIdentifier ==
  [][ (/\ last'.op \in {"markHealthy", "markUnhealthy"}
       /\ NamesNoEndpoint(balancers[last'.b], last'.arg)) =>
        LET before == balancers[last'.b]
            after  == balancers'[last'.b]
        IN  /\ \A i \in 1..Len(before.endpoints) :
                 /\ after.endpoints[i].healthy = before.endpoints[i].healthy
                 /\ after.endpoints[i].consecutiveFailures
                      = before.endpoints[i].consecutiveFailures
                 /\ after.endpoints[i].lastError = before.endpoints[i].lastError
                 /\ after.endpoints[i].alertSent = before.endpoints[i].alertSent
            /\ after.rrIndex = before.rrIndex
            /\ after.lastUsedEndpoint = before.lastUsedEndpoint
            /\ last'.alert = NoAlert /\ last'.cb = "none"
            /\ watch'.alerts = watch.alerts
    ]_vars

\* markUnhealthy has just been called with an unknown url on a balancer whose
\* endpoint is healthy, after a fetch.
C28_Witness ==
  /\ last.op = "markUnhealthy"
  /\ last.arg = <<"url", "Z">>
  /\ balancers[last.b].endpoints[1].healthy
  /\ balancers[last.b].lastUsedEndpoint # 0

\* The servers that listen.
ListeningServers(gw) == {s \in 1..Len(gw.servers) : gw.servers[s] = "listening"}

\* C26: start while this.server exists creates no server and changes
\* nothing; stop while there is none changes nothing; stop with a listening
\* server leaves that server closed and the gateway without a server; a
\* server is created only by a start that finds the gateway without one; at
\* most one server listens.
C26_StartStopIdempotent ==
  [][ /\ (last'.op = "start" /\ gateway.server # 0) => gateway' = gateway
      /\ (last'.op = "stop" /\ gateway.server = 0) => gateway' = gateway
      /\ (/\ last'.op = "stop"
          /\ gateway.server # 0
          /\ gateway.servers[gateway.server] = "listening") =>
            /\ gateway'.server = 0
            /\ gateway'.servers[gateway.server] = "closed"
            /\ ListeningServers(gateway') = {}
      /\ Len(gateway'.servers) > Len(gateway.servers) =>
            /\ last'.op = "start"
            /\ gateway.server = 0
            /\ Len(gateway'.servers) = Len(gateway.servers) + 1
      /\ Cardinality(ListeningServers(gateway')) <= 1
    ]_vars

\* After start, stop and start again the second server listens, and a further
\* start has just been called.
C26_Witness ==
  /\ last.op = "start"
  /\ gateway.server = 2
  /\ gateway.servers = <<"closed", "listening">>

\* An endpoint list the constructor must refuse: empty, or with an endpoint
\* whose url is empty.
Refused(given) ==
  given = <<>> \/ \E i \in 1..Len(given) : given[i].url = ""

\* A pool as it is right after construction from the list `given`.
FreshPool(lb, given) ==
  /\ Len(lb.endpoints) = Len(given)
  /\ \A i \in 1..Len(given) :
       /\ lb.endpoints[i].id = i - 1
       /\ lb.endpoints[i].url = given[i].url
       /\ lb.endpoints[i].healthy
       /\ lb.endpoints[i].consecutiveFailures = 0
       /\ ~lb.endpoints[i].alertSent

\* C30: new LoadBalancer throws, and builds nothing, when the endpoint list is
\* empty or an endpoint has an empty url; new RpcGateway throws, and builds
\* nothing, when routes is empty or the pool of a route cannot be built;
\* otherwise every endpoint starts with id endpoint-<index>, healthy, with
\* consecutiveFailures 0 and alertSent false, and the options that were not
\* given are failureThreshold 3 and minHealthy 1 (those given are kept).
C30_Construction ==
  /\ last.op = "new LoadBalancer" =>
       IF Refused(last.arg.endpoints)
       THEN last.returns = "throws" /\ balancers = <<>>
       ELSE /\ last.returns # "throws"
            /\ Len(balancers) = 1
            /\ FreshPool(balancers[1], last.arg.endpoints)
            /\ balancers[1].options.failureThreshold
                 = IF last.arg.options.failureThreshold = 0 THEN 3
                   ELSE last.arg.options.failureThreshold
            /\ balancers[1].options.minHealthy
                 = IF last.arg.options.minHealthy = -1 THEN 1
                   ELSE last.arg.options.minHealthy
  /\ last.op = "new RpcGateway" =>
       IF \/ last.arg.routes = <<>>
          \/ \E r \in 1..Len(last.arg.routes) : Refused(last.arg.routes[r].endpoints)
       THEN last.returns = "throws" /\ balancers = <<>> /\ gateway = NoGateway
       ELSE /\ last.returns # "throws"
            /\ Len(balancers) = Len(last.arg.routes)
            /\ \A r \in 1..Len(last.arg.routes) :
                 FreshPool(balancers[r], last.arg.routes[r].endpoints)

\* new RpcGateway has thrown because the second route's pool has an endpoint
\* without url.
C30_Witness ==
  /\ last.op = "new RpcGateway"
  /\ Len(last.arg.routes) = 2
  /\ last.returns = "throws"
  /\ last.error = "Endpoint must include a url."

\* new LoadBalancer has built a pool of two endpoints with the default
\* options.
C30_WitnessDefaults ==
  /\ last.op = "new LoadBalancer"
  /\ Len(balancers) = 1 /\ Len(balancers[1].endpoints) = 2
  /\ last.arg.options.failureThreshold = 0 /\ last.arg.options.minHealthy = -1
  /\ balancers[1].options.failureThreshold = 3

\* The endpoint the watch observer follows.
Watched == balancers[watch.b].endpoints[watch.e]

\* C31, the states: a healthy endpoint has fewer consecutive failures than the
\* threshold; an unhealthy one has reached the threshold or has had
\* markUnhealthy applied since it was last healthy.
C31_HealthStates ==
  /\ \A b \in 1..Len(balancers) : \A e \in 1..Len(balancers[b].endpoints) :
       balancers[b].endpoints[e].healthy =>
         balancers[b].endpoints[e].consecutiveFailures
           < balancers[b].options.failureThreshold
  /\ (watch.e # 0 /\ ~Watched.healthy) =>
       \/ Watched.consecutiveFailures >= balancers[watch.b].options.failureThreshold
       \/ watch.marked

\* C31, the steps: healthy becomes false only in a failed forward that reaches
\* the threshold or in markUnhealthy, and true only in a successful forward or
\* in markHealthy, each on that endpoint.
C31_HealthSteps ==
  \A b \in 1..Len(balancers) : \A e \in 1..Len(balancers[b].endpoints) :
    LET before == balancers[b].endpoints[e]
        after  == balancers'[b].endpoints[e]
        here   == last'.b = b /\ last'.endpoint = e
    IN  /\ (before.healthy /\ ~after.healthy) =>
             \/ /\ here /\ last'.op = "fetchDone"
                /\ last'.upstream \in {"not ok", "error"}
                /\ after.consecutiveFailures >= balancers[b].options.failureThreshold
             \/ here /\ last'.op = "markUnhealthy"
        /\ (~before.healthy /\ after.healthy) =>
             \/ here /\ last'.op = "fetchDone" /\ last'.upstream = "ok"
             \/ here /\ last'.op = "markHealthy"

\* C31: in every reachable state (failureThreshold >= 1) a healthy endpoint has
\* consecutiveFailures < failureThreshold and an unhealthy endpoint has
\* consecutiveFailures >= failureThreshold or has had markUnhealthy applied
\* since it was last healthy; healthy changes to false only in a failed forward
\* that reaches the threshold or in markUnhealthy, and to true only in a
\* successful forward or in markHealthy.
C31_HealthyIffBelowThreshold ==
  []C31_HealthStates /\ [][C31_HealthSteps]_vars

\* An endpoint that markUnhealthy took down below the threshold (3) and that
\* has failed a forward since: it is unhealthy with one consecutive failure.
C31_Witness ==
  /\ watch.e # 0 /\ watch.marked
  /\ ~Watched.healthy
  /\ Watched.consecutiveFailures = 1
  /\ balancers[watch.b].options.failureThreshold = 3
  /\ last.op = "fetchDone" /\ last.upstream = "error"

\* C32: in every reachable state a healthy endpoint has alertSent = false
\* (every return to Healthy, by a successful forward or by markHealthy, clears
\* the flag).
C32_HealthyHasNoAlertSent ==
  \A b \in 1..Len(balancers) : \A e \in 1..Len(balancers[b].endpoints) :
    balancers[b].endpoints[e].healthy => ~balancers[b].endpoints[e].alertSent

\* C32, the part the code keeps: alertSent rises only in a step that emits an
\* alert for an endpoint that is unhealthy afterwards, and a successful forward
\* clears it.
C32_AlertSentRisesWithAlert ==
  [][\A b \in 1..Len(balancers) : \A e \in 1..Len(balancers[b].endpoints) :
       LET before == balancers[b].endpoints[e]
           after  == balancers'[b].endpoints[e]
       IN  /\ (~before.alertSent /\ after.alertSent) =>
                /\ last'.b = b /\ last'.endpoint = e
                /\ last'.alert # NoAlert /\ ~after.healthy
           /\ (last'.op = "fetchDone" /\ last'.upstream = "ok"
               /\ last'.b = b /\ last'.endpoint = e) => ~after.alertSent]_vars

\* C33: every completed forward that fails increases the selected endpoint's
\* consecutiveFailures by exactly 1 and sets lastError to "HTTP <status>" for a
\* non-2xx response or to the upstream error message when there is no
\* response, whatever the alert callback does.
C33_FailureCountsOnce ==
  (last.op = "fetchDone" /\ last.upstream \in {"not ok", "error"}) =>
    /\ last.counted = 1
    /\ LastEndpoint.lastError = IF last.upstream = "not ok"
                                THEN HttpError(last.upstreamStatus)
                                ELSE UpstreamErrorMessage

\* C33, the part the code keeps: the same, for every failed forward in which no
\* alert callback threw (no callback, no alert, or a callback that returned or
\* rejected).
C33_FailureCountsOnceUnlessThrown ==
  (last.op = "fetchDone" /\ last.upstream \in {"not ok", "error"}
   /\ last.cb # "throws") =>
    /\ last.counted = 1
    /\ LastEndpoint.lastError = IF last.upstream = "not ok"
                                THEN HttpError(last.upstreamStatus)
                                ELSE UpstreamErrorMessage

\* The operations that select an endpoint.
Selects == {"getUrl", "getEndpoint", "fetch"}

\* C34: in every reachable state the round-robin cursor c satisfies
\* 0 <= c < number of configured endpoints.
C34_CursorInRange ==
  \A b \in 1..Len(balancers) :
    balancers[b].rrIndex >= 0 /\ balancers[b].rrIndex < Len(balancers[b].endpoints)

\* C34: each select uses index (c mod p) of the pool of size p chosen for that
\* call and then sets the cursor to (c + 1) mod p; getStatus, markHealthy,
\* markUnhealthy and forward completions never change the cursor.
C34_CursorSteps ==
  \A b \in 1..Len(balancers) :
    LET lb   == balancers[b]
        pool == ChosenPool(lb, last'.methods)
        c    == lb.rrIndex
    IN  IF last'.op \in Selects /\ last'.b = b /\ ~last'.threw
        THEN /\ last'.endpoint = pool[(c % Len(pool)) + 1]
             /\ balancers'[b].rrIndex = (c + 1) % Len(pool)
        ELSE balancers'[b].rrIndex = c

\* C34: the cursor stays in 0 .. (number of configured endpoints - 1); each
\* select uses index (c mod p) of the chosen pool of size p and sets the cursor
\* to (c + 1) mod p, and no other operation changes the cursor.
C34_CursorModPool ==
  []C34_CursorInRange /\ [][C34_CursorSteps]_vars

\* A select over a pool of two out of three endpoints (one is unhealthy) that
\* found the cursor at 2, used index 0 of the pool and left the cursor at 1.
C34_Witness ==
  /\ last.op = "fetch" /\ ~last.threw
  /\ Len(balancers[last.b].endpoints) = 3
  /\ ~balancers[last.b].endpoints[1].healthy
  /\ balancers[last.b].endpoints[2].healthy
  /\ balancers[last.b].endpoints[3].healthy
  /\ last.cursor = 2 /\ last.endpoint = 2
  /\ balancers[last.b].rrIndex = 1

\* A getStatus call after the cursor has moved.
C34_WitnessGetStatus ==
  /\ last.op = "getStatus"
  /\ balancers[last.b].rrIndex = 2
  /\ ~last.arg[1].healthy

\* C35, the steps: only a forward changes lastUsed, and it sets it at selection
\* time to (a copy of) the endpoint it selected; a completion, successful or
\* not, leaves it.
C35_LastUsedSteps ==
  \A b \in 1..Len(balancers) :
    IF last'.op = "fetch" /\ last'.b = b /\ ~last'.threw
    THEN /\ balancers'[b].lastUsedEndpoint = last'.endpoint
         /\ \E call \in BagToSet(inflight') :
              call.b = b /\ call.endpoint = last'.endpoint
    ELSE balancers'[b].lastUsedEndpoint = balancers[b].lastUsedEndpoint

\* C35: lastUsed is absent until the first forward; select, getUrl,
\* getEndpoint, getStatus, markHealthy and markUnhealthy never change it; each
\* forward sets it at selection time, before the upstream call completes, to a
\* copy of the selected endpoint, also when the forward later fails.
C35_LastUsedSetByForward ==
  /\ \A b \in 1..Len(balancers) : balancers[b].lastUsedEndpoint = 0
  /\ [][C35_LastUsedSteps]_vars

\* A forward to the second endpoint has failed, the endpoint is unhealthy, and
\* lastUsed still names it after a later getUrl returned another endpoint.
C35_Witness ==
  /\ last.op = "getUrl" /\ last.endpoint = 3
  /\ balancers[last.b].lastUsedEndpoint = 2
  /\ ~balancers[last.b].endpoints[2].healthy
  /\ balancers[last.b].endpoints[2].lastError = UpstreamErrorMessage

\* A forward is in flight: lastUsed names its endpoint before the upstream
\* call has completed.
C35_WitnessInFlight ==
  /\ last.op = "fetch" /\ last.endpoint = 2
  /\ balancers[last.b].lastUsedEndpoint = 2
  /\ BagCardinality(inflight) = 1

\* C36: a gateway request that is answered before forwarding (preflight 204,
\* 405, 413, -32700, -32600, -32601) makes no upstream call and leaves every
\* pool unchanged: no cursor advance, no change to any endpoint's health
\* fields, no change to lastUsed, no alert.
C36_RefusedLeavesPools ==
  [][(handled'.req # NoRequest /\ handled'.decision # "forwarded") =>
       /\ handled'.decision = "replied"
       /\ handled'.status \in {200, 204, 405, 413}
       /\ handled'.status = 200 => handled'.code \in {-32700, -32600, -32601}
       /\ balancers' = balancers
       /\ inflight' = inflight
       /\ timers' = timers
       /\ last' = last]_vars

\* A request refused with -32601 while a forward of the same gateway is in
\* flight: the pool still has the forward's lastUsed and its call.
C36_Witness ==
  /\ handled.req # NoRequest /\ handled.decision = "replied"
  /\ handled.code = -32601
  /\ BagCardinality(inflight) = 1
  /\ last.op = "fetch"
  /\ balancers[last.b].lastUsedEndpoint = last.endpoint

\* A preflight answered with 204 after a forward has failed and made its
\* endpoint unhealthy.
C36_WitnessPreflight ==
  /\ handled.req # NoRequest /\ handled.decision = "replied"
  /\ handled.status = 204
  /\ last.op = "fetchDone"
  /\ ~balancers[last.b].endpoints[last.endpoint].healthy

\* A select step in which endpoint e is a member of the chosen pool and the
\* pool has more than one member.
SelectsAmong(e) ==
  /\ last'.op \in Selects /\ ~last'.threw
  /\ LET pool == ChosenPool(balancers[last'.b], last'.methods)
     IN  Len(pool) > 1 /\ \E i \in 1..Len(pool) : pool[i] = e

\* A select step that returns endpoint e.
Returns(e) == last'.op \in Selects /\ ~last'.threw /\ last'.endpoint = e

\* Endpoint e exists and is healthy.
StaysHealthy(e) ==
  \A b \in 1..Len(balancers) :
    e <= Len(balancers[b].endpoints) => balancers[b].endpoints[e].healthy

\* C37: no eligible endpoint is starved: in an infinite sequence of select
\* calls (methods arguments vary, other endpoints change health) in which
\* endpoint E, healthy throughout, is infinitely often a member of the chosen
\* pool while that pool has more than one member, E is returned infinitely
\* often.
C37_NoStarvation ==
  \A e \in 1..3 :
    ([]StaysHealthy(e) /\ []<><<SelectsAmong(e)>>_vars) => []<><<Returns(e)>>_vars

\* C38: when a gateway request's forward completes (with a response or an
\* error), the endpoint the gateway obtains from getLastUsedEndpoint for that
\* request is the endpoint the request was forwarded to, even when other
\* requests on the same route were selected while it was in flight.
C38_LoggedEndpointIsOwn ==
  (handled.logged # 0 /\ handled.decision \in {"reading", "replied", "failed"}) =>
    handled.logged = handled.endpoint

\* C39: for every request the gateway writes a response status exactly once:
\* after the upstream status and headers have been written, no second status
\* (such as 502) is written, even if reading the upstream body then fails or
\* the endpoint's timeout timer fires during the body read; and a forward
\* counted as a success for health is never answered downstream with 502.
C39_OneStatusPerRequest ==
  /\ handled.decision # "none" => handled.second = 0
  /\ (handled.decision \in {"reading", "replied", "failed"}
      /\ handled.message = "upstream" /\ ResponseOk(handled.status)) =>
       handled.status # 502 /\ handled.second # 502

\* C39, the part the code keeps: a request whose body read succeeds, or whose
\* forward fails before any head is written, gets one status.
C39_OneStatusUnlessBodyFails ==
  handled.decision \in {"reading", "replied", "forwarded"} => handled.second = 0

\* C39, the case of the timer: a 200 response whose head is written and whose
\* forward left its endpoint healthy is not followed by a 502 when the
\* endpoint's timer fires during the body read.
C39_TimerDuringBodyRead ==
  ~(/\ handled.decision = "failed" /\ handled.status = 200
    /\ handled.second = 502
    /\ last.op = "body" /\ last.timer = "fired"
    /\ balancers[handled.route].endpoints[handled.endpoint].healthy
    /\ balancers[handled.route].endpoints[handled.endpoint].consecutiveFailures = 0)

\* C40: start() completes successfully only when the socket is listening (a
\* start() issued while an earlier one is still binding does not resolve
\* before the socket is bound), and when binding fails the gateway returns to
\* the not-started state, so that a later start() binds again.
C40_StartMeansListening ==
  /\ (last.op = "start" /\ last.returns = "resolved") =>
       gateway.server # 0 /\ gateway.servers[gateway.server] = "listening"
  /\ last.op = "bindError" => gateway.server = 0

\* C40, the part the code keeps: a start() on a gateway without a server
\* creates one and stays pending until the bind ends.
C40_FirstStartAwaitsBind ==
  [][(last'.op = "start" /\ gateway.server = 0) =>
       /\ last'.returns = "pending"
       /\ gateway'.server # 0
       /\ gateway'.servers[gateway'.server] = "binding"]_vars

\* C40, the case of the failed bind: no start() returns while this.server is a
\* server whose bind has failed.
C40_StartAfterFailedBind ==
  last.op = "start" =>
    ~(gateway.server # 0 /\ gateway.servers[gateway.server] = "failed")

====
